---- MODULE Spec2Model ----
(***************************************************************************)
(* A model of the reactive state store of nerd-talk (state-store/):        *)
(*   - StateContainer.updateState            (state/StateContainer.ts)     *)
(*   - AsyncActionManager                    (internal/AsyncActionManager) *)
(*   - SubscriptionTree                      (utils/objectTraversal.ts)    *)
(*   - ComputedManager                       (state/ComputedManager.ts)    *)
(*   - createBatchedUpdates                  (utils/createBatchedUpdates)  *)
(*   - InternalStateManager._setState        (state/index.ts)              *)
(*   - LRUCache                              (utils/lruCache.ts)           *)
(*   - ErrorBoundary                         (utils/errorBoundary.ts)      *)
(* There is one specification per component (SpecAsync, SpecTree,          *)
(* SpecStore, SpecCache, SpecRetry), SpecNotify for a notification taken   *)
(* callback by callback, SpecCycle for a store whose computed values read  *)
(* each other, SpecComputed for one whose computed values throw or return  *)
(* new objects, SpecConditional for one whose computed value reads        *)
(* different keys in different states, SpecParallel for executeParallel,   *)
(* and SpecBatch (SpecBatchLive with fairness) for the scheduler taken     *)
(* call by call; each leaves the variables it does not use unchanged.      *)
(***************************************************************************)
EXTENDS Integers, Sequences, FiniteSets, TLC

VARIABLES
    \* ---- StateContainer
    state,                  \* StateContainer.state : top-level key -> Value
    \* ---- AsyncActionManager
    asyncStateMap,          \* key -> {pending, error, loaded}
    activeActionRequests,   \* key -> request id, NoReq when the map has no entry
    abortControllers,       \* request ids that have an entry in abortControllers
    timeoutIds,             \* request ids that have an entry in timeoutIds
    timers,                 \* request ids whose setTimeout is armed (not fired, not cleared)
    calls,                  \* request id -> the call (its key, phase, signal, result)
    nextRequest,            \* the number of calls made so far
    lastInvoked,            \* key -> the most recently invoked request id (history)
    parallel,               \* the executeParallel call: its actions, limit, calls and array
    asyncEvent,             \* the last step of the manager (history)
    \* ---- SubscriptionTree
    subscriptionTree,       \* the trie, wildcardSubscriberMap and subscriberRegistry
    subscriberObjs,         \* subscriber id -> the Subscriber object
    nextSubscriberId,       \* SubscriptionManager.nextSubscriberId
    now,                    \* performance.now()
    notification,           \* the notifySubscribers calls of the step just taken (history)
    notifyingCounter,       \* SubscriptionTree.notifyingCounter
    pendingSubscriptionChanges, \* the subscription changes queued during a notification
    notifyFrames,           \* the notifySubscribers calls in progress, innermost first
    \* ---- LRUCache
    lruCache,               \* the fields of one LRUCache
    lruUsed,                \* its keys, the most recently set or fetched first (history)
    lruEvent,               \* the last call on it and what it returned (history)
    \* ---- ComputedManager
    computedManager,        \* the fields of the ComputedManager
    evaluated,              \* the computed keys the step just taken evaluated (history)
    \* ---- createBatchedUpdates / InternalStateManager
    pendingUpdates,         \* priority -> the queued updates
    rafId,                  \* the armed flush timer: "null", "timeout0" or "frame"
    isServer,               \* utils/env.ts isServer: no window object
    hasRequestAnimationFrame, \* typeof requestAnimationFrame === 'function'
    isProcessing,           \* state.isProcessing
    flushQueue,             \* the updates the running flush has still to call
    frames,                 \* the requestAnimationFrame callbacks requested and not yet run
    nextFn,                 \* the number of the next update function scheduled
    lastFlush,              \* the flush running or last run (history)
    batchEvent,             \* the last call on the scheduler (history)
    runs,                   \* update function -> how often it was called (history)
    dropped,                \* the update functions replaced, cancelled or refused (history)
    during,                 \* the update functions scheduled while a flush ran (history)
    \* ---- ErrorBoundary
    recoveryAttempts,       \* ErrorBoundary.recoveryAttempts: context id -> count, 0 for no entry
    retryTimers,            \* context id -> the retries waiting for their setTimeout
    unrecovered,            \* context id -> retries scheduled since one last succeeded (history)
    boundaryEvent           \* the last safeExecute call or retry and what it gave (history)

asyncVars == <<asyncStateMap, activeActionRequests, abortControllers, timeoutIds,
               timers, calls, nextRequest, lastInvoked, asyncEvent, parallel>>

treeVars == <<subscriptionTree, subscriberObjs, nextSubscriberId, now, notification>>

notifyVars == <<notifyingCounter, pendingSubscriptionChanges, notifyFrames>>

lruVars == <<lruCache, lruUsed, lruEvent>>

batchVars == <<hasRequestAnimationFrame, isProcessing, flushQueue, frames, nextFn,
               lastFlush, batchEvent, runs, dropped, during>>

retryVars == <<recoveryAttempts, retryTimers, unrecovered, boundaryEvent>>

storeVars == <<computedManager, evaluated, pendingUpdates, rafId, isServer>>

(***************************************************************************)
(* Values.  A JavaScript value is a number, NaN, or a reference to an      *)
(* object.  Objects are immutable (the store never mutates in place), so   *)
(* an object is its reference and ObjFields gives its own properties.      *)
(***************************************************************************)
MaxNum == 5
NObj == 3

Num(n) == [t |-> "num", n |-> n]
NaN == [t |-> "nan", n |-> 0]
Undefined == [t |-> "undefined", n |-> 0]
Obj(r) == [t |-> "obj", n |-> r]

Nums == {Num(n) : n \in 0..MaxNum}
Objs == {Obj(r) : r \in 1..NObj}

\* The own properties of the objects of the universe, in key order: 2 differs
\* from 1 in the value of c, 3 lacks c, any further object is empty.
ObjFields(r) ==
    CASE r = 1 -> <<<<"b", 1>>, <<"c", 1>>>>
      [] r = 2 -> <<<<"b", 1>>, <<"c", 2>>>>
      [] r = 3 -> <<<<"b", 1>>>>
      [] OTHER -> <<>>

\* Object.keys(obj)
ObjKeySeq(r) == [i \in 1..Len(ObjFields(r)) |-> ObjFields(r)[i][1]]

ObjKeys(r) == {ObjFields(r)[i][1] : i \in 1..Len(ObjFields(r))}

\* a === b : numbers by value, NaN equal to nothing, objects by reference
StrictEq(a, b) == a.t # "nan" /\ a = b

IsObject(v) == v.t = "obj"

\* the value found at a path of one or two segments below the state, undefined if none
Lookup(s, path) ==
    IF path[1] \notin DOMAIN s THEN Undefined
    ELSE IF Len(path) = 1 THEN s[path[1]]
    ELSE IF IsObject(s[path[1]]) /\ path[2] \in ObjKeys(s[path[1]].n)
    THEN LET f == ObjFields(s[path[1]].n)
         IN  Num(f[CHOOSE i \in 1..Len(f) : f[i][1] = path[2]][2])
    ELSE Undefined

(***************************************************************************)
(* StateContainer                                                          *)
(***************************************************************************)
\* Object.keys(state), and the keys a caller may pass: those and one the state lacks
StateKeys == <<"x", "y", "a">>
UpdateKeys == <<"x", "y", "a", "z">>

Range(seq) == {seq[i] : i \in 1..Len(seq)}

\* Set.add / Map.set(key, _) on a collection kept in insertion order
MapSet(seq, id) == IF id \in Range(seq) THEN seq ELSE Append(seq, id)

RECURSIVE AddEach(_, _)
AddEach(seq, items) ==
    IF items = <<>> THEN seq ELSE AddEach(MapSet(seq, Head(items)), Tail(items))

\* utils/compare.ts detectStructuralChanges on two objects whose properties
\* are numbers: the key count differs or a current key is missing
detectStructuralChanges(cur, nxt) ==
    \/ Len(ObjFields(cur.n)) # Len(ObjFields(nxt.n))
    \/ \E k \in ObjKeys(cur.n) : k \notin ObjKeys(nxt.n)

\* StateContainer.addNestedPaths: one path per own property of the object
addNestedPaths(rootPath, v) ==
    IF IsObject(v)
    THEN [i \in 1..Len(ObjKeySeq(v.n)) |-> rootPath \o <<ObjKeySeq(v.n)[i]>>]
    ELSE <<>>

\* the keys of newState that pass `key in nextState` and differ by ===
WrittenKeys(s, u) ==
    {k \in DOMAIN u : k \in DOMAIN s /\ ~StrictEq(s[k], u[k])}

BothObjects(s, u, k) == IsObject(s[k]) /\ IsObject(u[k])

StructuralKeys(s, u) ==
    {k \in WrittenKeys(s, u) : BothObjects(s, u, k) /\ detectStructuralChanges(s[k], u[k])}

\* the paths one changed key adds to changedPaths (lines 77-97)
KeyPaths(s, u, k) ==
    <<<<k>>>>
    \o (IF BothObjects(s, u, k) THEN addNestedPaths(<<k>>, u[k]) ELSE <<>>)
    \o (IF k \in StructuralKeys(s, u) THEN addNestedPaths(<<k>>, s[k]) ELSE <<>>)

RECURSIVE ChangedPathsFrom(_, _, _, _)
ChangedPathsFrom(acc, keys, s, u) ==
    IF keys = <<>> THEN acc
    ELSE ChangedPathsFrom(IF Head(keys) \in WrittenKeys(s, u)
                          THEN AddEach(acc, KeyPaths(s, u, Head(keys)))
                          ELSE acc,
                          Tail(keys), s, u)

\* StateContainer.updateState: the next state and the change set
updateState(s, u, statePath) ==
    LET written == WrittenKeys(s, u)
        nextState == [k \in DOMAIN s |-> IF k \in written THEN u[k] ELSE s[k]]
        paths == ChangedPathsFrom(<<>>, UpdateKeys, s, u)
    IN  IF written = {}
        THEN [state |-> s, changedKeys |-> {}, changedPaths |-> <<>>,
              hasStructuralChange |-> FALSE]
        ELSE [state |-> nextState, changedKeys |-> written,
              changedPaths |-> IF statePath = <<>> THEN paths ELSE MapSet(paths, statePath),
              hasStructuralChange |-> StructuralKeys(s, u) # {}]

(***************************************************************************)
(* SubscriptionTree (utils/objectTraversal.ts).  A path is the sequence of *)
(* its segments (parsePath splits the dotted string); a trie node is named *)
(* by the path that leads to it.  A JavaScript Map is a sequence of its    *)
(* keys in insertion order.                                                *)
(***************************************************************************)
SINGLE_LEVEL_WILDCARD == 1
MULTI_LEVEL_WILDCARD == 2

MaxSubs == 2
MaxTime == 2
ThrottleMs == 1

SubIds == 1..MaxSubs
ExactPaths == {<<"x">>, <<"y">>, <<"a">>, <<"a", "b">>, <<"a", "c">>}
WildcardPaths == {<<"*">>, <<"a", "*">>, <<"a", "**">>}
ChangedPathUniverse == ExactPaths \cup {<<"a", "b", "d">>, <<"*">>}

\* Map.delete(key)
MapDelete(seq, id) == SelectSeq(seq, LAMBDA e : e # id)

Prefix(path, n) == SubSeq(path, 1, n)

IsWildcardPath(path) == Len(path) > 0 /\ path[Len(path)] \in {"*", "**"}

isPathPrefixMatch(prefix, path) ==
    /\ Len(prefix) <= Len(path)
    /\ \A i \in 1..Len(prefix) : prefix[i] = path[i]

\* node.subscribers / node.singleLevelWildcardNode.subscribers / ... of the node at
\* `path`; a node that was never created holds nobody
NodeMap(m, path) == IF path \in DOMAIN m THEN m[path] ELSE <<>>

EmptyTree ==
    [nodes |-> {<<>>},
     subscribers |-> <<>>,
     singleLevelWildcardNode |-> <<>>,
     multiLevelWildcardNode |-> <<>>,
     wildcardSubscriberMap |-> <<>>,
     subscriberRegistry |-> {}]

\* m with m[k] = v; a node that holds nobody has no entry
Put(m, k, v) ==
    IF v = <<>> THEN [q \in DOMAIN m \ {k} |-> m[q]]
    ELSE [q \in DOMAIN m \cup {k} |-> IF q = k THEN v ELSE m[q]]

\* navigateToNode(segments, true): every node on the way is created
navigateToNode(t, segments) ==
    [t EXCEPT !.nodes = @ \cup {Prefix(segments, n) : n \in 0..Len(segments)}]

\* wildcardSubscriberMap.set(id, {type, parentPath}): one entry per subscriber id
WildcardMapSet(wm, id, type, parentPath) ==
    IF \E i \in 1..Len(wm) : wm[i].id = id
    THEN [i \in 1..Len(wm) |->
            IF wm[i].id = id THEN [id |-> id, type |-> type, parentPath |-> parentPath]
            ELSE wm[i]]
    ELSE Append(wm, [id |-> id, type |-> type, parentPath |-> parentPath])

WildcardMapHas(wm, id) == \E i \in 1..Len(wm) : wm[i].id = id

WildcardMapGet(wm, id) == wm[CHOOSE i \in 1..Len(wm) : wm[i].id = id]

addSubscriberToPath(t, path, id) ==
    IF Len(path) = 0
    THEN [t EXCEPT !.subscribers = Put(@, <<>>, MapSet(NodeMap(@, <<>>), id))]
    ELSE IF IsWildcardPath(path)
    THEN LET parentSegments == Prefix(path, Len(path) - 1)
             n == navigateToNode(t, parentSegments)
         IN  IF path[Len(path)] = "*"
             THEN [n EXCEPT
                     !.singleLevelWildcardNode =
                         Put(@, parentSegments, MapSet(NodeMap(@, parentSegments), id)),
                     !.wildcardSubscriberMap =
                         WildcardMapSet(@, id, SINGLE_LEVEL_WILDCARD, parentSegments)]
             ELSE [n EXCEPT
                     !.multiLevelWildcardNode =
                         Put(@, parentSegments, MapSet(NodeMap(@, parentSegments), id)),
                     !.wildcardSubscriberMap =
                         WildcardMapSet(@, id, MULTI_LEVEL_WILDCARD, parentSegments)]
    ELSE LET n == navigateToNode(t, path)
         IN  [n EXCEPT !.subscribers = Put(@, path, MapSet(NodeMap(@, path), id))]

RECURSIVE AddPaths(_, _, _)
AddPaths(t, paths, id) ==
    IF paths = <<>> THEN t
    ELSE AddPaths(addSubscriberToPath(t, Head(paths), id), Tail(paths), id)

\* performSubscribe: the subscriber id is fresh (SubscriptionManager.subscribe numbers
\* its subscribers), so the "already registered" branch is never taken
performSubscribe(t, id, paths) ==
    [AddPaths(t, paths, id) EXCEPT !.subscriberRegistry = @ \cup {id}]

\* navigateToNode(segments) without creation stops at the deepest existing node
DeepestNode(t, segments) ==
    Prefix(segments,
           CHOOSE n \in 0..Len(segments) :
               /\ \A m \in 0..n : Prefix(segments, m) \in t.nodes
               /\ (n = Len(segments) \/ Prefix(segments, n + 1) \notin t.nodes))

removeSubscriberFromPath(t, path, id) ==
    IF WildcardMapHas(t.wildcardSubscriberMap, id)
    THEN LET w == WildcardMapGet(t.wildcardSubscriberMap, id)
             node == DeepestNode(t, w.parentPath)
             wm == SelectSeq(t.wildcardSubscriberMap, LAMBDA e : e.id # id)
         IN  IF w.type = SINGLE_LEVEL_WILDCARD
             THEN [t EXCEPT !.singleLevelWildcardNode =
                                Put(@, node, MapDelete(NodeMap(@, node), id)),
                            !.wildcardSubscriberMap = wm]
             ELSE [t EXCEPT !.multiLevelWildcardNode =
                                Put(@, node, MapDelete(NodeMap(@, node), id)),
                            !.wildcardSubscriberMap = wm]
    ELSE IF IsWildcardPath(path)
    THEN LET node == DeepestNode(t, Prefix(path, Len(path) - 1))
         IN  IF path[Len(path)] = "*"
             THEN [t EXCEPT !.singleLevelWildcardNode =
                                Put(@, node, MapDelete(NodeMap(@, node), id))]
             ELSE [t EXCEPT !.multiLevelWildcardNode =
                                Put(@, node, MapDelete(NodeMap(@, node), id))]
    ELSE LET node == DeepestNode(t, path)
         IN  [t EXCEPT !.subscribers = Put(@, node, MapDelete(NodeMap(@, node), id))]

RECURSIVE RemovePaths(_, _, _)
RemovePaths(t, paths, id) ==
    IF paths = <<>> THEN t
    ELSE RemovePaths(removeSubscriberFromPath(t, Head(paths), id), Tail(paths), id)

performUnsubscribe(t, id, dependencyPaths) ==
    IF id \notin t.subscriberRegistry THEN t
    ELSE [RemovePaths(t, dependencyPaths, id) EXCEPT !.subscriberRegistry = @ \ {id}]

\* subscribersToNotify.set(id, subscriber) for every active subscriber of one node
RECURSIVE AddAll(_, _, _)
AddAll(acc, ids, objs) ==
    IF ids = <<>> THEN acc
    ELSE AddAll(IF objs[Head(ids)].active THEN MapSet(acc, Head(ids)) ELSE acc,
                Tail(ids), objs)

\* lines 531-553: the wildcard subscribers found through wildcardSubscriberMap
WildcardMatches(w, segments) ==
    IF w.type = SINGLE_LEVEL_WILDCARD
    THEN Len(segments) = Len(w.parentPath) + 1 /\ isPathPrefixMatch(w.parentPath, segments)
    ELSE Len(segments) >= Len(w.parentPath) /\ isPathPrefixMatch(w.parentPath, segments)

RECURSIVE AddWildcards(_, _, _, _, _)
AddWildcards(acc, wm, t, objs, segments) ==
    IF wm = <<>> THEN acc
    ELSE LET w == Head(wm)
             hit == /\ w.id \in t.subscriberRegistry
                    /\ objs[w.id].active
                    /\ WildcardMatches(w, segments)
         IN  AddWildcards(IF hit THEN MapSet(acc, w.id) ELSE acc, Tail(wm), t, objs, segments)

\* lines 556-603: the walk down the trie, segment i of the changed path
RECURSIVE WalkTrie(_, _, _, _, _)
WalkTrie(acc, t, objs, segments, i) ==
    IF i > Len(segments) THEN acc
    ELSE LET currentNode == Prefix(segments, i - 1)
             nextNode == Prefix(segments, i)
             single == AddAll(acc, NodeMap(t.singleLevelWildcardNode, currentNode), objs)
             multi == AddAll(single, NodeMap(t.multiLevelWildcardNode, currentNode), objs)
         IN  IF nextNode \notin t.nodes THEN multi
             ELSE WalkTrie(AddAll(multi, NodeMap(t.subscribers, nextNode), objs),
                           t, objs, segments, i + 1)

CollectForPath(acc, t, objs, segments) ==
    LET root == AddAll(acc, NodeMap(t.subscribers, <<>>), objs)
        wild == AddWildcards(root, t.wildcardSubscriberMap, t, objs, segments)
    IN  WalkTrie(wild, t, objs, segments, 1)

RECURSIVE subscribersToNotify(_, _, _, _)
subscribersToNotify(acc, t, objs, changedPaths) ==
    IF changedPaths = <<>> THEN acc
    ELSE subscribersToNotify(CollectForPath(acc, t, objs, Head(changedPaths)),
                             t, objs, Tail(changedPaths))

\* Array.prototype.sort((a, b) => b.priority - a.priority): stable, descending
RECURSIVE InsertByPriority(_, _, _)
InsertByPriority(sorted, id, objs) ==
    IF sorted = <<>> THEN <<id>>
    ELSE IF objs[Head(sorted)].priority >= objs[id].priority
    THEN <<Head(sorted)>> \o InsertByPriority(Tail(sorted), id, objs)
    ELSE <<id>> \o sorted

RECURSIVE sortedSubscribers(_, _)
sortedSubscribers(ids, objs) ==
    IF ids = <<>> THEN <<>>
    ELSE InsertByPriority(sortedSubscribers(SubSeq(ids, 1, Len(ids) - 1), objs),
                          ids[Len(ids)], objs)

\* a notification that skips nobody
neverThrottled(o, time) == FALSE

\* lines 617-623: the throttle check
Throttled(o, time) ==
    o.throttle # 0 /\ o.lastExecuted # 0 /\ time - o.lastExecuted < o.throttle

\* the subscribers whose callback one notifySubscribers(changedPaths) runs, in order
Notified(t, objs, changedPaths, time) ==
    SelectSeq(sortedSubscribers(subscribersToNotify(<<>>, t, objs, changedPaths), objs),
              LAMBDA id : ~Throttled(objs[id], time))

\* subscriber.lastExecuted = now for every callback that ran
AfterNotify(objs, ran, time) ==
    [id \in DOMAIN objs |-> IF id \in Range(ran) THEN [objs[id] EXCEPT !.lastExecuted = time]
                            ELSE objs[id]]

(***************************************************************************)
(* The operations of the SubscriptionTree as the store drives them:        *)
(* SubscriptionManager.subscribe / its disposer / notifySubscribers.       *)
(***************************************************************************)
NoSubscriber ==
    [paths |-> <<>>, priority |-> 0, throttle |-> 0, lastExecuted |-> 0, active |-> FALSE]

DefaultOptions == [priority |-> 0, throttle |-> 0]

SubscriberOptions ==
    {DefaultOptions,
     [priority |-> 1, throttle |-> 0],
     [priority |-> 0, throttle |-> ThrottleMs]}

\* the subscriptions tried: one path with any options, or two paths, a wildcard among
\* them, with the default options
SubscribeInputs ==
    {[paths |-> <<p>>, options |-> o] :
        p \in {<<"x">>, <<"a", "b">>, <<"*">>, <<"a", "*">>, <<"a", "**">>},
        o \in SubscriberOptions}
    \cup {[paths |-> l, options |-> DefaultOptions] :
            l \in {<<<<"x">>, <<"a", "*">>>>, <<<<"a", "*">>, <<"x">>>>,
                   <<<<"a", "*">>, <<"a", "**">>>>, <<<<"a", "b">>, <<"a", "**">>>>}}

ChangedPathLists ==
    {<<p>> : p \in ChangedPathUniverse \ {<<"y">>}}
    \cup {<<p, q>> : p \in {<<"a">>}, q \in {<<"a", "b">>, <<"a", "c">>}}

\* SubscriptionManager.subscribe(listener, {paths, priority, throttle})
Subscribe(paths, options) ==
    /\ nextSubscriberId < MaxSubs
    /\ LET id == nextSubscriberId + 1
       IN  /\ nextSubscriberId' = id
           /\ subscriberObjs' = [subscriberObjs EXCEPT ![id] =
                  [paths |-> paths, priority |-> options.priority,
                   throttle |-> options.throttle, lastExecuted |-> 0, active |-> TRUE]]
           /\ subscriptionTree' = performSubscribe(subscriptionTree, id, paths)
    /\ notification' = <<>>
    /\ UNCHANGED now

\* the disposer returned by subscribe, called outside a notification
Unsubscribe(id) ==
    /\ id \in subscriptionTree.subscriberRegistry
    /\ subscriptionTree' = performUnsubscribe(subscriptionTree, id, subscriberObjs[id].paths)
    /\ notification' = <<>>
    /\ UNCHANGED <<subscriberObjs, nextSubscriberId, now>>

\* SubscriptionTree.notifySubscribers(changedPaths)
NotifySubscribers(changedPaths) ==
    /\ changedPaths # <<>>
    /\ LET ran == Notified(subscriptionTree, subscriberObjs, changedPaths, now)
       IN  /\ subscriberObjs' = AfterNotify(subscriberObjs, ran, now)
           /\ notification' = <<[paths |-> changedPaths, ran |-> ran]>>
    /\ UNCHANGED <<subscriptionTree, nextSubscriberId, now>>

\* performance.now() advances
Tick ==
    /\ now < MaxTime
    /\ now' = now + 1
    /\ notification' = <<>>
    /\ UNCHANGED <<subscriptionTree, subscriberObjs, nextSubscriberId>>

InitTree ==
    /\ subscriptionTree = EmptyTree
    /\ subscriberObjs = [id \in SubIds |-> NoSubscriber]
    /\ nextSubscriberId = 0
    /\ now = 1
    /\ notification = <<>>

(***************************************************************************)
(* notifySubscribers step by step, with callbacks that act on the tree:    *)
(* a callback may subscribe, call a disposer, notify again, return or      *)
(* throw.  JavaScript is single-threaded, so while a notification is in    *)
(* progress everything that happens does so inside the running callback.   *)
(***************************************************************************)
MaxDepth == 2
MaxPending == 2

\* a tree that never defers a subscription change
neverNotifying(counter) == FALSE

\* lines 499-501: get isNotifying
isNotifying(counter) == counter > 0

\* the tree can be called: no notification in progress, or a callback is running
Callable == IF notifyFrames = <<>> THEN TRUE ELSE notifyFrames[1].running

NewSubscriber(paths, options) ==
    [paths |-> paths, priority |-> options.priority, throttle |-> options.throttle,
     lastExecuted |-> 0, active |-> TRUE]

\* lines 657-669: the queued changes run in order, the counter being 0 each
\* change takes effect at once; r is [tree, objs]
ApplyChange(r, change) ==
    IF change.op = "subscribe"
    THEN [tree |-> performSubscribe(r.tree, change.id, change.paths),
          objs |-> [r.objs EXCEPT ![change.id] = NewSubscriber(change.paths, change.options)]]
    ELSE IF change.id \in r.tree.subscriberRegistry
         THEN [r EXCEPT !.tree = performUnsubscribe(r.tree, change.id, r.objs[change.id].paths)]
         ELSE r

RECURSIVE ApplyChanges(_, _)
ApplyChanges(r, changes) ==
    IF changes = <<>> THEN r
    ELSE ApplyChanges(ApplyChange(r, Head(changes)), Tail(changes))

\* lines 225-255 with SubscriptionManager.subscribe (lines 47-98)
TreeSubscribe(paths, options) ==
    /\ Callable
    /\ nextSubscriberId < MaxSubs
    /\ LET id == nextSubscriberId + 1
       IN  /\ nextSubscriberId' = id
           /\ IF isNotifying(notifyingCounter)
              THEN /\ Len(pendingSubscriptionChanges) < MaxPending
                   /\ pendingSubscriptionChanges' = Append(pendingSubscriptionChanges,
                          [op |-> "subscribe", id |-> id, paths |-> paths, options |-> options])
                   /\ UNCHANGED <<subscriptionTree, subscriberObjs>>
              ELSE /\ subscriberObjs' = [subscriberObjs EXCEPT ![id] = NewSubscriber(paths, options)]
                   /\ subscriptionTree' = performSubscribe(subscriptionTree, id, paths)
                   /\ UNCHANGED pendingSubscriptionChanges
    /\ notification' = <<>>
    /\ UNCHANGED <<now, notifyingCounter, notifyFrames>>

\* lines 243-249 and 307-313: the disposer subscribe returned for id
TreeDispose(id) ==
    /\ Callable
    /\ id \in 1..nextSubscriberId
    /\ IF isNotifying(notifyingCounter)
       THEN /\ Len(pendingSubscriptionChanges) < MaxPending
            /\ pendingSubscriptionChanges' = Append(pendingSubscriptionChanges,
                   [op |-> "unsubscribe", id |-> id, paths |-> <<>>, options |-> DefaultOptions])
            /\ UNCHANGED subscriptionTree
       ELSE /\ id \in subscriptionTree.subscriberRegistry
            /\ subscriptionTree' =
                   performUnsubscribe(subscriptionTree, id, subscriberObjs[id].paths)
            /\ UNCHANGED pendingSubscriptionChanges
    /\ notification' = <<>>
    /\ UNCHANGED <<subscriberObjs, nextSubscriberId, now, notifyingCounter, notifyFrames>>

\* lines 503-615: the counter goes up, the subscribers are collected and sorted
NotifyBegin(changedPaths) ==
    /\ Callable
    /\ changedPaths # <<>>
    /\ Len(notifyFrames) < MaxDepth
    /\ notifyingCounter' = notifyingCounter + 1
    /\ LET selected == sortedSubscribers(
               subscribersToNotify(<<>>, subscriptionTree, subscriberObjs, changedPaths),
               subscriberObjs)
       IN  notifyFrames' = <<[paths |-> changedPaths, now |-> now, queue |-> selected,
                              running |-> FALSE, selected |-> selected, skipped |-> <<>>,
                              called |-> <<>>, threw |-> <<>>, ran |-> <<>>]>>
                           \o notifyFrames
    /\ notification' = <<>>
    /\ UNCHANGED <<subscriptionTree, subscriberObjs, nextSubscriberId, now,
                   pendingSubscriptionChanges>>

\* lines 616-627: the loop takes the next subscriber; throttled it is skipped,
\* otherwise its callback is called
CallbackStart ==
    /\ notifyFrames # <<>>
    /\ LET f == notifyFrames[1]
       IN  /\ ~f.running
           /\ f.queue # <<>>
           /\ notifyFrames' = [notifyFrames EXCEPT ![1] =
                  IF Throttled(subscriberObjs[Head(f.queue)], f.now)
                  THEN [f EXCEPT !.queue = Tail(f.queue),
                                 !.skipped = Append(f.skipped, Head(f.queue))]
                  ELSE [f EXCEPT !.running = TRUE,
                                 !.called = Append(f.called, Head(f.queue))]]
    /\ notification' = <<>>
    /\ UNCHANGED <<subscriptionTree, subscriberObjs, nextSubscriberId, now,
                   notifyingCounter, pendingSubscriptionChanges>>

\* a loop that an exception of a callback would end
stopLoop(queue) == <<>>

\* lines 632-634: the catch block logs and the for loop takes the next subscriber
AfterThrow(queue) == Tail(queue)

\* lines 625-635: the callback returns (lastExecuted and notifiedSubscribers
\* are updated) or throws (the catch block logs); the loop goes on.  The
\* callbacks registered with a throttle are SubscriptionManager's safeListener
\* and subscribeState's stateListener, which catch what the listener throws;
\* the callback that can throw is subscribeStates' stateListener, registered
\* without options.
CallbackEnd(throws) ==
    /\ notifyFrames # <<>>
    /\ LET f == notifyFrames[1]
           id == Head(f.queue)
       IN  /\ f.running
           /\ throws => subscriberObjs[id].throttle = 0
           /\ notifyFrames' = [notifyFrames EXCEPT ![1] =
                  IF throws
                  THEN [f EXCEPT !.running = FALSE, !.queue = AfterThrow(f.queue),
                                 !.threw = Append(f.threw, id)]
                  ELSE [f EXCEPT !.running = FALSE, !.queue = Tail(f.queue),
                                 !.ran = Append(f.ran, id)]]
           /\ subscriberObjs' = IF throws THEN subscriberObjs
                                ELSE [subscriberObjs EXCEPT ![id].lastExecuted = f.now]
    /\ notification' = <<>>
    /\ UNCHANGED <<subscriptionTree, nextSubscriberId, now, notifyingCounter,
                   pendingSubscriptionChanges>>

\* lines 652-670: the finally block
NotifyEnd ==
    /\ notifyFrames # <<>>
    /\ LET f == notifyFrames[1]
           apply == notifyingCounter - 1 = 0 /\ pendingSubscriptionChanges # <<>>
       IN  /\ ~f.running
           /\ f.queue = <<>>
           /\ notifyingCounter' = notifyingCounter - 1
           /\ notifyFrames' = Tail(notifyFrames)
           /\ notification' = <<[paths |-> f.paths, ran |-> f.ran, selected |-> f.selected,
                                 skipped |-> f.skipped, called |-> f.called,
                                 threw |-> f.threw, time |-> f.now,
                                 applied |-> IF apply THEN pendingSubscriptionChanges
                                             ELSE <<>>]>>
           /\ IF apply
              THEN \E r \in {ApplyChanges([tree |-> subscriptionTree, objs |-> subscriberObjs],
                                          pendingSubscriptionChanges)} :
                      /\ subscriptionTree' = r.tree
                      /\ subscriberObjs' = r.objs
                      /\ pendingSubscriptionChanges' = <<>>
              ELSE UNCHANGED <<subscriptionTree, subscriberObjs, pendingSubscriptionChanges>>
    /\ UNCHANGED <<nextSubscriberId, now>>

\* performance.now() advances, also while a callback runs
NotifyTick == Tick /\ UNCHANGED notifyVars

InitNotify ==
    /\ notifyingCounter = 0
    /\ pendingSubscriptionChanges = <<>>
    /\ notifyFrames = <<>>

\* the subscriptions and changed paths tried step by step
NotifySubscribeInputs ==
    {[paths |-> <<p>>, options |-> o] :
        p \in {<<"x">>, <<"a", "*">>}, o \in SubscriberOptions}

NotifyPathLists == {<<<<"x">>>>, <<<<"a", "b">>>>}

(***************************************************************************)
(* ComputedManager (state/ComputedManager.ts).  The store is configured    *)
(* with two computed values:                                               *)
(*   C: (state) => state.x * 2                                             *)
(*   D: (state) => state.computed ? state.computed.C : undefined           *)
(* D reads C the one way the manager can see: through the `computed`       *)
(* namespace.  Only the virtual state of buildComputedDependencyGraph      *)
(* carries that namespace; the frozen state of an update does not.         *)
(***************************************************************************)
ComputedKeys == <<"C", "D">>

\* a store whose computed values P and Q read each other:
\*   P: (s) => s.computed?.Q ?? s.x      Q: (s) => s.computed?.P ?? s.x
CyclicComputedKeys == <<"C", "P", "Q">>

\* a store with a computed value that throws for some states and one that
\* returns a new object on every call:
\*   T: (s) => { if (s.y === 1) throw new Error(); return s.y }
\*   E: (s) => ({ v: s.x })
FailingComputedKeys == <<"C", "T", "E">>

\* a store with a computed value whose reads depend on what it reads first:
\*   F: (s) => (s.x === 0 ? s.y : 0)
ConditionalComputedKeys == <<"C", "F">>

\* no computed key
NoKey == "none"

\* the JavaScript call stack holds only so many nested calls
MaxStack == 4

\* The object { v: value } made by a call of E: its reference (0 or 1, a new
\* object has the one the cached object has not) and its content
BoxSpan == MaxNum + 3
BoxCode(v) == IF v.t = "num" THEN v.n ELSE IF v.t = "nan" THEN MaxNum + 1 ELSE MaxNum + 2
Box(ref, v) == [t |-> "box", n |-> ref * BoxSpan + BoxCode(v)]
BoxRef(b) == b.n \div BoxSpan
BoxContent(b) == b.n % BoxSpan
NewRef(key, cache) ==
    IF key \in DOMAIN cache /\ cache[key].t = "box" THEN 1 - BoxRef(cache[key]) ELSE 0

\* the call of the computed function throws
Throws(key, st, virtual) == key = "T" /\ ~virtual /\ Lookup(st, <<"y">>) = Num(1)

\* v * 2 in JavaScript for the values of the model
Double(v) == IF v.t = "num" THEN Num(2 * v.n) ELSE NaN

\* The virtual state: an empty object with the `computed` getter
VirtualState == <<>>

\* One call of a computed function through the tracking proxy: its value, the
\* dependency paths the proxy recorded, and the computed keys it read through
\* state.computed.  `virtual` tells the virtual state from a frozen real state.
RunComputed(key, st, virtual, cache) ==
    IF key = "C"
    THEN [value |-> Double(Lookup(st, <<"x">>)), dependencies |-> {<<"x">>}, reads |-> {}]
    ELSE IF key = "T"
    THEN [value |-> Lookup(st, <<"y">>), dependencies |-> {<<"y">>}, reads |-> {}]
    ELSE IF key = "E"
    THEN [value |-> Box(NewRef(key, cache), Lookup(st, <<"x">>)),
          dependencies |-> {<<"x">>}, reads |-> {}]
    ELSE IF key = "F"
    THEN IF ~virtual /\ Lookup(st, <<"x">>) = Num(0)
         THEN [value |-> Lookup(st, <<"y">>), dependencies |-> {<<"x">>, <<"y">>},
               reads |-> {}]
         ELSE [value |-> Num(0), dependencies |-> {<<"x">>}, reads |-> {}]
    ELSE IF key \in {"P", "Q"}
    THEN IF virtual
         THEN [value |-> cache[IF key = "P" THEN "Q" ELSE "P"],
               dependencies |-> {<<"computed">>},
               reads |-> {IF key = "P" THEN "Q" ELSE "P"}]
         ELSE [value |-> Lookup(st, <<"x">>), dependencies |-> {<<"computed">>, <<"x">>},
               reads |-> {}]
    ELSE IF virtual
    THEN [value |-> cache["C"], dependencies |-> {<<"computed">>}, reads |-> {"C"}]
    ELSE [value |-> Undefined, dependencies |-> {<<"computed">>}, reads |-> {}]

\* dependencies.size === 0 -> dependencies.add('*')
OrAll(dependencies) == IF dependencies = {} THEN {<<"*">>} ELSE dependencies

\* initializeComputedValues: every computed function applied to the initial state
initializeComputedValues(computed, s) ==
    [k \in Range(computed) |-> RunComputed(k, s, FALSE, <<>>).value]

\* computedDependencyGraph as the sequence of its keys (a Map keeps insertion
\* order) and its edges <<dependency, dependent>>
RECURSIVE buildComputedDependencyGraph(_, _)
buildComputedDependencyGraph(cm, keys) ==
    IF keys = <<>> THEN cm
    ELSE LET key == Head(keys)
             run == RunComputed(key, VirtualState, TRUE, cm.computedCache)
             reads == {r \in run.reads : r # key /\ r \in Range(cm.computed)}
             graph == [keys |-> AddEach(cm.computedDependencyGraph.keys,
                                        SelectSeq(cm.computed, LAMBDA r : r \in reads)),
                       edges |-> cm.computedDependencyGraph.edges
                                 \cup {<<r, key>> : r \in reads}]
         IN  buildComputedDependencyGraph(
                 [cm EXCEPT !.computedDependencyGraph = graph,
                            !.computedDependencies[key] = OrAll(run.dependencies)],
                 Tail(keys))

\* a visit that never finds its key on the current path
neverOnPath(v, key) == FALSE

\* line 195: tempVisited.has(key)
OnPath(v, key) == key \in v.tempVisited

\* a sort that takes no key for cyclic
neverCyclic(v, key) == FALSE

\* line 239: cyclicDependencies.has(key)
IsCyclic(v, key) == key \in v.cyclicDependencies

\* console.warn under isDevelopment
Warn(v) == IF v.dev THEN [v EXCEPT !.warned = @ + 1] ELSE v

\* topologicalSort: the depth-first visit, its bookkeeping in the record v;
\* v.warned counts the console.warn calls, v.threw tells that a call went
\* beyond the call stack (RangeError), which ends the sort
RECURSIVE visit(_, _, _, _)
RECURSIVE VisitDependencies(_, _, _, _, _)
visit(v, key, keys, graph) ==
    IF v.threw \/ key \in v.visited THEN v
    ELSE IF OnPath(v, key)
    THEN IF key \in Range(v.pathArray)
         THEN LET cycleStart == CHOOSE i \in 1..Len(v.pathArray) :
                                    /\ v.pathArray[i] = key
                                    /\ \A j \in 1..(i - 1) : v.pathArray[j] # key
              IN  Warn([v EXCEPT !.cyclicDependencies =
                       @ \cup {v.pathArray[i] : i \in cycleStart..Len(v.pathArray)} \cup {key}])
         ELSE v
    ELSE IF Len(v.pathArray) >= MaxStack THEN [v EXCEPT !.threw = TRUE]
    ELSE LET entered == [v EXCEPT !.pathArray = Append(@, key),
                                  !.tempVisited = @ \cup {key}]
             done == VisitDependencies(entered, key, keys, graph, graph.keys)
         IN  IF done.threw THEN done
             ELSE [done EXCEPT !.tempVisited = @ \ {key},
                               !.visited = @ \cup {key},
                               !.result = IF IsCyclic(done, key) THEN @
                                          ELSE Append(@, key),
                               !.pathArray = SubSeq(@, 1, Len(@) - 1)]

VisitDependencies(v, key, keys, graph, depKeys) ==
    IF depKeys = <<>> THEN v
    ELSE LET depKey == Head(depKeys)
             next == IF <<depKey, key>> \in graph.edges /\ depKey \in Range(keys)
                     THEN visit(v, depKey, keys, graph)
                     ELSE v
         IN  VisitDependencies(next, key, keys, graph, Tail(depKeys))

RECURSIVE VisitAll(_, _, _, _)
VisitAll(v, todo, keys, graph) ==
    IF todo = <<>> THEN v
    ELSE VisitAll(IF Head(todo) \notin v.visited /\ Head(todo) \notin v.cyclicDependencies
                  THEN visit(v, Head(todo), keys, graph)
                  ELSE v,
                  Tail(todo), keys, graph)

\* lines 247-254: a second warning when cyclic keys were found
WarnCyclic(v) == IF ~v.threw /\ v.cyclicDependencies # {} THEN Warn(v) ELSE v

topologicalSort(keys, graph, dev) ==
    WarnCyclic(VisitAll([result |-> <<>>, visited |-> {}, tempVisited |-> {},
                         cyclicDependencies |-> {}, pathArray |-> <<>>,
                         dev |-> dev, warned |-> 0, threw |-> FALSE],
                        keys, keys, graph))

\* lines 78-83; sorted is the outcome of topologicalSort
BuiltWith(built, sorted) ==
    IF sorted.threw THEN [built EXCEPT !.threw = TRUE, !.warned = sorted.warned]
    ELSE [built EXCEPT
            !.allComputedKeysInOrder = [cached |-> TRUE, keys |-> sorted.result],
            !.isDependencyGraphDirty = FALSE,
            !.warned = sorted.warned]

BuildSorted(built) ==
    BuiltWith(built, topologicalSort(built.computed, built.computedDependencyGraph,
                                     built.isDevelopment))

buildDependencyGraph(cm) == BuildSorted(buildComputedDependencyGraph(cm, cm.computed))

\* buildStateKeyToComputedMap: the pairs <<dependency path, computed key>>
buildStateKeyToComputedMap(cm) ==
    [cm EXCEPT !.stateKeyToComputedMap =
        [built |-> TRUE,
         pairs |-> UNION {{<<d, k>> : d \in cm.computedDependencies[k]} :
                            k \in Range(cm.computed)}]]

\* lines 284-294: every value of the state is undefined, null or an empty object
isStateEmpty(currentState) ==
    \A k \in DOMAIN currentState :
        \/ currentState[k] = Undefined
        \/ IsObject(currentState[k]) /\ ObjKeys(currentState[k].n) = {}

\* lines 302-325 for changed keys that are top-level keys (updateState's changedKeys
\* never hold a dotted path or '*'): a changed key now holds an object with keys
hasObjectStructureChanges(changedStateKeys, currentState) ==
    \E k \in changedStateKeys :
        IsObject(currentState[k]) /\ ObjKeys(currentState[k].n) # {}

\* lines 349-367: the computed keys mapped to a changed key or to '*'
AffectedComputedKeys(cm, changedStateKeys) ==
    {p[2] : p \in {q \in cm.stateKeyToComputedMap.pairs :
                      q[1] = <<"*">> \/ \E k \in changedStateKeys : q[1] = <<k>>}}

\* findDependents: everything reachable from `keys` in computedDependencyGraph
RECURSIVE findDependents(_, _)
findDependents(keys, graph) ==
    LET more == keys \cup {e[2] : e \in {d \in graph.edges : d[1] \in keys}}
    IN  IF more = keys THEN keys ELSE findDependents(more, graph)

\* deepEqual on the values of the model
\* a comparison that finds any two values different
neverEqual(a, b) == FALSE

deepEqual(a, b) ==
    \/ StrictEq(a, b)
    \/ IsObject(a) /\ IsObject(b) /\ ObjFields(a.n) = ObjFields(b.n)
    \/ /\ a.t = "box" /\ b.t = "box"
       /\ BoxContent(a) = BoxContent(b)
       /\ BoxContent(a) # MaxNum + 1

\* lines 408-479 for one key: the function runs on the frozen state, its dependencies
\* and the cache are refreshed
EvaluateComputed(cm, key, frozenState) ==
    LET run == RunComputed(key, frozenState, FALSE, cm.computedCache)
        dependencies == OrAll(run.dependencies)
        oldDeps == cm.computedDependencies[key]
        depsChanged == oldDeps # dependencies
        map == cm.stateKeyToComputedMap
        prevValue == cm.computedCache[key]
    IN  [cm EXCEPT
            !.stateKeyToComputedMap =
                IF depsChanged /\ map.built
                THEN [map EXCEPT !.pairs = (@ \ {<<d, key>> : d \in oldDeps})
                                           \cup {<<d, key>> : d \in dependencies}]
                ELSE map,
            !.computedDependencies[key] = dependencies,
            !.isDependencyGraphDirty = @ \/ depsChanged,
            !.computedCache[key] =
                IF ~StrictEq(prevValue, run.value) /\ ~deepEqual(prevValue, run.value)
                THEN run.value ELSE prevValue]

RECURSIVE EvaluateAll(_, _, _)
EvaluateAll(cm, keys, frozenState) ==
    IF keys = <<>> THEN cm
    ELSE IF Throws(Head(keys), frozenState, FALSE) THEN [cm EXCEPT !.failed = Head(keys)]
    ELSE EvaluateAll(EvaluateComputed(cm, Head(keys), frozenState), Tail(keys), frozenState)

\* the keys whose functions were called: up to the first that throws
RECURSIVE Called(_, _)
Called(keys, frozenState) ==
    IF keys = <<>> THEN <<>>
    ELSE IF Throws(Head(keys), frozenState, FALSE) THEN <<Head(keys)>>
    ELSE <<Head(keys)>> \o Called(Tail(keys), frozenState)

\* an updateComputedValues that returns before it evaluates anything: the cache
\* keeps the values of the state before
staleComputedValues(cm, changedStateKeys, currentState) ==
    [cm |-> cm, evaluated |-> <<>>]

\* lines 392-405: the keys to update in the order of allComputedKeysInOrder
SortedComputedKeys(cm, computedKeysToUpdate) ==
    LET order == cm.allComputedKeysInOrder.keys
    IN  IF Cardinality(computedKeysToUpdate) = Len(order) THEN order
        ELSE SelectSeq(order, LAMBDA k : k \in computedKeysToUpdate)

\* lines 408-479: the sorted keys are evaluated in turn
EvaluateSorted(cm, sortedComputedKeys, currentState) ==
    [cm |-> EvaluateAll(cm, sortedComputedKeys, currentState),
     evaluated |-> Called(sortedComputedKeys, currentState)]

\* lines 369-405: nothing to do without a directly affected key; else their
\* dependents are added and the keys sorted
UpdateAffected(cm, direct, currentState) ==
    IF direct = {} THEN [cm |-> cm, evaluated |-> <<>>]
    ELSE EvaluateSorted(
             cm,
             SortedComputedKeys(cm, findDependents(direct, cm.computedDependencyGraph)),
             currentState)

\* lines 349-367 with the reverse map in place
UpdateMapped(cm, changedStateKeys, currentState) ==
    UpdateAffected(cm, AffectedComputedKeys(cm, changedStateKeys), currentState)

\* lines 327-367: a full update takes every computed key, else the reverse map
\* (built on first use) gives the keys that depend on a changed key
UpdateGraphed(cm, full, changedStateKeys, currentState) ==
    IF cm.threw THEN [cm |-> cm, evaluated |-> <<>>]
    ELSE IF full THEN UpdateAffected(cm, Range(cm.computed), currentState)
    ELSE UpdateMapped(IF cm.stateKeyToComputedMap.built THEN cm
                      ELSE buildStateKeyToComputedMap(cm),
                      changedStateKeys, currentState)

\* updateComputedValues: the manager afterwards and the keys evaluated, in order
updateComputedValues(cm, changedStateKeys, currentState) ==
    IF changedStateKeys = {} THEN [cm |-> cm, evaluated |-> <<>>]
    ELSE UpdateGraphed(
             IF cm.isDependencyGraphDirty \/ cm.computedDependencyGraph.keys = <<>>
             THEN buildDependencyGraph([cm EXCEPT !.failed = NoKey])
             ELSE [cm EXCEPT !.failed = NoKey],
             isStateEmpty(currentState)
                 \/ hasObjectStructureChanges(changedStateKeys, currentState),
             changedStateKeys, currentState)

\* new ComputedManager(initialState, computed, getTrackingProxy); warned and
\* threw tell how the last buildDependencyGraph went, failed names the computed
\* function that threw in the last updateComputedValues
ComputedManagerOf(computed, dev, initialState) ==
    [computed |-> computed,
     isDevelopment |-> dev,
     computedCache |-> initializeComputedValues(computed, initialState),
     computedDependencies |-> [k \in Range(computed) |-> {}],
     computedDependencyGraph |-> [keys |-> <<>>, edges |-> {}],
     isDependencyGraphDirty |-> TRUE,
     allComputedKeysInOrder |-> [cached |-> FALSE, keys |-> <<>>],
     stateKeyToComputedMap |-> [built |-> FALSE, pairs |-> {}],
     warned |-> 0,
     threw |-> FALSE,
     failed |-> NoKey]

NewComputedManager(initialState) == ComputedManagerOf(ComputedKeys, TRUE, initialState)

(***************************************************************************)
(* createBatchedUpdates (utils/createBatchedUpdates.ts).  A queued update  *)
(* is its id and the changed paths its closure passes to notifySubscribers.*)
(***************************************************************************)
NoPending == [high |-> <<>>, normal |-> <<>>, low |-> <<>>]

QueueNames == <<"high", "normal", "low">>

\* scheduleUpdate without an id: `if (id)` is false
NoId == 0

\* a scheduler that leaves the queued update where it is
keepExisting(pending, id) == pending

isDuplicateUpdate(pending, id) ==
    \E q \in Range(QueueNames) : \E i \in 1..Len(pending[q]) : pending[q][i].id = id

\* queue.splice(queue.findIndex(update => update.id === id), 1)
RemoveFirst(queue, id) ==
    IF \E i \in 1..Len(queue) : queue[i].id = id
    THEN LET index == CHOOSE i \in 1..Len(queue) :
                          queue[i].id = id /\ \A j \in 1..(i - 1) : queue[j].id # id
         IN  SubSeq(queue, 1, index - 1) \o SubSeq(queue, index + 1, Len(queue))
    ELSE queue

removeExistingUpdate(pending, id) ==
    [q \in DOMAIN pending |-> RemoveFirst(pending[q], id)]

\* scheduleUpdate up to the push onto the queue (lines 167-184)
Enqueue(pending, update, priority, replace) ==
    IF update.id # NoId /\ isDuplicateUpdate(pending, update.id) /\ ~replace THEN pending
    ELSE LET cleared == IF update.id # NoId /\ isDuplicateUpdate(pending, update.id)
                        THEN removeExistingUpdate(pending, update.id) ELSE pending
         IN  [cleared EXCEPT ![priority] = Append(@, update)]

\* scheduleFlush in a browser: the timer armed afterwards
scheduleFlush(pending, timer) ==
    IF timer # "null" THEN timer
    ELSE IF pending.high # <<>> THEN "timeout0"
    ELSE "frame"

\* a flush that takes the low queue first
lowFirst(pending) == pending.low \o pending.normal \o pending.high

\* flushUpdates: the queued updates in the order they run
FlushOrder(pending) == pending.high \o pending.normal \o pending.low

\* every update of a flush calls notifySubscribers(paths) in turn; the subscriber
\* objects afterwards and the log of the calls
RECURSIVE RunUpdates(_, _, _, _, _)
RunUpdates(objs, log, updates, t, time) ==
    IF updates = <<>> THEN [objs |-> objs, log |-> log]
    ELSE LET paths == Head(updates).paths
             ran == IF paths = <<>> THEN <<>> ELSE Notified(t, objs, paths, time)
         IN  RunUpdates(AfterNotify(objs, ran, time),
                        Append(log, [paths |-> paths, ran |-> ran]),
                        Tail(updates), t, time)

(***************************************************************************)
(* InternalStateManager (state/index.ts)                                   *)
(***************************************************************************)
DefaultUpdateOptions == [silent |-> FALSE, priority |-> "normal", statePath |-> <<>>]

\* the paths _setState hands to notifySubscribers (lines 203-217)
NotifiedPaths(r) ==
    IF r.hasStructuralChange THEN MapSet(r.changedPaths, <<"*">>) ELSE r.changedPaths

\* the store as a _setState call leaves it: the state, the computed values, the
\* scheduler's queue and timer, and what a synchronous flush did
StoreAfter(r, upd, pending, timer, flushed) ==
    [state |-> r.state, computedManager |-> upd.cm, evaluated |-> upd.evaluated,
     pendingUpdates |-> pending, rafId |-> timer,
     subscriberObjs |-> flushed.objs, notification |-> flushed.log]

Unflushed == [objs |-> subscriberObjs, log |-> <<>>]

\* createBatchedUpdates.ts 159-188 after the push: scheduleFlush, which on a server
\* calls flushUpdates at once
ScheduleUpdate(r, upd, queued) ==
    IF isServer
    THEN StoreAfter(r, upd, NoPending, "null",
                    RunUpdates(subscriberObjs, <<>>, FlushOrder(queued), subscriptionTree, now))
    ELSE StoreAfter(r, upd, queued, scheduleFlush(queued, rafId), Unflushed)

\* a store that takes no update for silent
neverSilent(options) == FALSE

\* line 219: if (!silent)
Silent(options) == options.silent

\* lines 219-229: unless silent, the notification is scheduled under the id
\* `state-update-${Date.now()}`, here the clock value itself.  What a computed
\* function throws in updateComputedValues leaves _setState before that (safeAction
\* catches and logs it).
ComputedUpdated(r, upd, options) ==
    IF upd.cm.failed # NoKey \/ Silent(options)
    THEN StoreAfter(r, upd, pendingUpdates, rafId, Unflushed)
    ELSE ScheduleUpdate(r, upd,
                        Enqueue(pendingUpdates, [id |-> now, paths |-> NotifiedPaths(r)],
                                IF r.hasStructuralChange THEN "high" ELSE options.priority,
                                TRUE))

\* lines 203-209: nothing more happens without a changed key; else the computed
\* values are updated
StateUpdated(r, options) ==
    IF r.changedKeys = {}
    THEN StoreAfter(r, [cm |-> computedManager, evaluated |-> <<>>],
                    pendingUpdates, rafId, Unflushed)
    ELSE ComputedUpdated(r, updateComputedValues(computedManager, r.changedKeys, r.state),
                         options)

\* _setState(newState, options): the store afterwards
SetStateEffect(u, options) ==
    StateUpdated(updateState(state, u, options.statePath), options)

SetState(u, options) ==
    /\ state' = updateState(state, u, options.statePath).state
    /\ UNCHANGED <<isServer, subscriptionTree, nextSubscriberId, now>>
    /\ \E e \in {SetStateEffect(u, options)} :
          /\ computedManager' = e.computedManager
          /\ evaluated' = e.evaluated
          /\ pendingUpdates' = e.pendingUpdates
          /\ rafId' = e.rafId
          /\ subscriberObjs' = e.subscriberObjs
          /\ notification' = e.notification

\* the timer armed by scheduleFlush fires: flushUpdates
FlushUpdates ==
    /\ rafId # "null"
    /\ LET flushed == RunUpdates(subscriberObjs, <<>>, FlushOrder(pendingUpdates),
                                 subscriptionTree, now)
       IN  /\ subscriberObjs' = flushed.objs
           /\ notification' = flushed.log
    /\ rafId' = "null"
    /\ pendingUpdates' = NoPending
    /\ evaluated' = <<>>
    /\ UNCHANGED <<state, computedManager, isServer, subscriptionTree, nextSubscriberId, now>>

\* the partial states passed to setState: one key, or two; "z" is no key of the state
XInputs == {Num(MaxNum), NaN}
YInputs == {Num(1)}
AInputs == {Obj(2), Obj(3), Num(0)}

Updates ==
    {[k \in {"x"} |-> v] : v \in XInputs}
    \cup {[k \in {"y"} |-> v] : v \in YInputs}
    \cup {[k \in {"a"} |-> v] : v \in AInputs}
    \cup {[k \in {"z"} |-> Num(1)], [k \in {"x", "z"} |-> Num(MaxNum)]}

UpdateOptionsTried ==
    {DefaultUpdateOptions, [DefaultUpdateOptions EXCEPT !.silent = TRUE]}

\* store.subscribe(listener, {paths}) as SpecStore tries it
StoreSubscribeInputs == {<<<<"x">>>>, <<<<"a", "b">>>>}

InitStore ==
    /\ computedManager = NewComputedManager(state)
    /\ evaluated = <<>>
    /\ pendingUpdates = NoPending
    /\ rafId = "null"
    /\ isServer \in BOOLEAN

\* a store built with the computed values C, P and Q
InitCyclicStore ==
    /\ \E dev \in BOOLEAN :
          computedManager = ComputedManagerOf(CyclicComputedKeys, dev, state)
    /\ evaluated = <<>>
    /\ pendingUpdates = NoPending
    /\ rafId = "null"
    /\ isServer \in BOOLEAN

\* a store built with the computed values C, T and E
InitFailingStore ==
    /\ computedManager = ComputedManagerOf(FailingComputedKeys, TRUE, state)
    /\ evaluated = <<>>
    /\ pendingUpdates = NoPending
    /\ rafId = "null"
    /\ isServer \in BOOLEAN

\* a store built with the computed values C and F
InitConditionalStore ==
    /\ computedManager = ComputedManagerOf(ConditionalComputedKeys, TRUE, state)
    /\ evaluated = <<>>
    /\ pendingUpdates = NoPending
    /\ rafId = "null"
    /\ isServer \in BOOLEAN

\* IComputedManager.buildDependencyGraph()
BuildGraph ==
    /\ computedManager' = buildDependencyGraph(computedManager)
    /\ evaluated' = <<>>
    /\ notification' = <<>>
    /\ UNCHANGED <<state, pendingUpdates, rafId, isServer, subscriptionTree,
                   subscriberObjs, nextSubscriberId, now>>

(***************************************************************************)
(* createBatchedUpdates taken call by call: scheduleUpdate, cancelUpdate   *)
(* and flushUpdatesImmediately from outside or from the update function    *)
(* that a flush is running, the timers, and the loop of flushUpdates.  A   *)
(* queued update is its id (NoId: none given) and its function.            *)
(***************************************************************************)
MaxUpdates == 3
MaxFrames == 2

Fns == 1..MaxUpdates
BatchIds == {NoId, 1}
Priorities == {"high", "normal", "low"}
Timeouts == {"timeout0", "timeout16"}

\* lines 76-79
noNewUpdates(pending) == FALSE

hasNewUpdates(pending) ==
    pending.high # <<>> \/ pending.normal # <<>> \/ pending.low # <<>>

\* lines 102-120: the timer rafId names after scheduleFlush in a browser
scheduleFlushIn(pending, timer, hasRaf) ==
    IF timer # "null" THEN timer
    ELSE IF pending.high # <<>> THEN "timeout0"
    ELSE IF hasRaf THEN "frame"
    ELSE "timeout16"

\* the functions of the queued updates
QueuedFns(pending) ==
    UNION {{pending[q][i].fn : i \in 1..Len(pending[q])} : q \in Range(QueueNames)}

FnsOf(queue) == [i \in 1..Len(queue) |-> queue[i].fn]

\* a call is made from outside while no flush runs, or by the update function
\* the loop of flushUpdates has just called
CallableBatch == ~isProcessing \/ lastFlush.ran # <<>>

NoFlush == [queued |-> NoPending, ran |-> <<>>, trigger |-> "none"]

\* flushUpdates lines 39-59, when isProcessing was false: the timer rafId names
\* is cleared with clearTimeout (a setTimeout timer is armed only while rafId
\* names it; a requestAnimationFrame callback is no timer and stays requested),
\* the three queues are copied in order and emptied
FlushStarted(pending, trigger) ==
    /\ isProcessing' = TRUE
    /\ rafId' = "null"
    /\ flushQueue' = FlushOrder(pending)
    /\ pendingUpdates' = NoPending
    /\ lastFlush' = [queued |-> pending, ran |-> <<>>, trigger |-> trigger]

\* flushUpdates: line 37 returns while a flush is running
flushUpdates(pending, trigger) ==
    IF isProcessing
    THEN pendingUpdates' = pending /\ UNCHANGED <<isProcessing, flushQueue, lastFlush>>
    ELSE FlushStarted(pending, trigger)

\* scheduleFlush lines 94-121
ScheduleFlushed(pending) ==
    IF isServer
    THEN /\ flushUpdates(pending, "server")
         /\ IF isProcessing THEN UNCHANGED rafId ELSE TRUE
         /\ UNCHANGED frames
    ELSE /\ pendingUpdates' = pending
         /\ rafId' = scheduleFlushIn(pending, rafId, hasRequestAnimationFrame)
         /\ IF rafId = "null" /\ rafId' = "frame"
            THEN frames < MaxFrames /\ frames' = frames + 1
            ELSE UNCHANGED frames
         /\ UNCHANGED <<isProcessing, flushQueue, lastFlush>>

\* the updates a call takes out of the queue without running them
Dropped(pending) == dropped \cup (QueuedFns(pendingUpdates) \ QueuedFns(pending))

\* scheduleUpdate(update, {priority, id, replace}), lines 159-188
BatchSchedule(priority, id, replace) ==
    /\ CallableBatch
    /\ nextFn <= MaxUpdates
    /\ nextFn' = nextFn + 1
    /\ batchEvent' = [op |-> "schedule", fn |-> nextFn, id |-> id, priority |-> priority,
                      replace |-> replace,
                      duplicate |-> id # NoId /\ isDuplicateUpdate(pendingUpdates, id)]
    /\ during' = IF isProcessing THEN during \cup {nextFn} ELSE during
    /\ IF id # NoId /\ isDuplicateUpdate(pendingUpdates, id) /\ ~replace
       THEN /\ dropped' = dropped \cup {nextFn}
            /\ UNCHANGED <<pendingUpdates, rafId, frames, isProcessing, flushQueue,
                           lastFlush>>
       ELSE \E queued \in {Enqueue(pendingUpdates, [id |-> id, fn |-> nextFn],
                                   priority, replace)} :
               /\ dropped' = Dropped(queued)
               /\ ScheduleFlushed(queued)
    /\ UNCHANGED <<isServer, hasRequestAnimationFrame, runs>>

\* cancelUpdate(id), lines 206-211
BatchCancel(id) ==
    /\ CallableBatch
    /\ id # NoId
    /\ isDuplicateUpdate(pendingUpdates, id)
    /\ pendingUpdates' = removeExistingUpdate(pendingUpdates, id)
    /\ dropped' = Dropped(removeExistingUpdate(pendingUpdates, id))
    /\ batchEvent' = [op |-> "cancel", fn |-> 0, id |-> id, priority |-> "none",
                      replace |-> FALSE, duplicate |-> FALSE]
    /\ UNCHANGED <<rafId, frames, isProcessing, flushQueue, lastFlush, nextFn, during,
                   isServer, hasRequestAnimationFrame, runs>>

\* flushUpdatesImmediately(), lines 217-225 (tried while fewer than MaxFrames
\* animation frame callbacks would be left requested with rafId null)
BatchFlushImmediately ==
    /\ CallableBatch
    /\ rafId = "frame" => frames < MaxFrames
    /\ flushUpdates(pendingUpdates, "immediate")
    /\ rafId' = "null"
    /\ batchEvent' = [op |-> "flushImmediately", fn |-> 0, id |-> NoId,
                      priority |-> "none", replace |-> FALSE, duplicate |-> FALSE]
    /\ UNCHANGED <<frames, nextFn, during, dropped, isServer, hasRequestAnimationFrame,
                   runs>>

\* the setTimeout timer that rafId names fires: flushUpdates
TimeoutFire ==
    /\ ~isProcessing
    /\ rafId \in Timeouts
    /\ FlushStarted(pendingUpdates, rafId)
    /\ batchEvent' = [op |-> "timer", fn |-> 0, id |-> NoId, priority |-> "none",
                      replace |-> FALSE, duplicate |-> FALSE]
    /\ UNCHANGED <<frames, nextFn, during, dropped, isServer, hasRequestAnimationFrame,
                   runs>>

\* a requested animation frame comes: flushUpdates
FrameFire ==
    /\ ~isProcessing
    /\ frames > 0
    /\ frames' = frames - 1
    /\ FlushStarted(pendingUpdates, "frame")
    /\ batchEvent' = [op |-> "frame", fn |-> 0, id |-> NoId, priority |-> "none",
                      replace |-> FALSE, duplicate |-> FALSE]
    /\ UNCHANGED <<nextFn, during, dropped, isServer, hasRequestAnimationFrame, runs>>

\* lines 62-71: the loop calls the next update function; what it throws is
\* caught and logged, and the loop goes on
RunUpdate ==
    /\ isProcessing
    /\ flushQueue # <<>>
    /\ flushQueue' = Tail(flushQueue)
    /\ lastFlush' = [lastFlush EXCEPT !.ran = Append(@, Head(flushQueue).fn)]
    /\ runs' = [runs EXCEPT ![Head(flushQueue).fn] = @ + 1]
    /\ batchEvent' = [op |-> "run", fn |-> Head(flushQueue).fn, id |-> Head(flushQueue).id,
                      priority |-> "none", replace |-> FALSE, duplicate |-> FALSE]
    /\ UNCHANGED <<pendingUpdates, rafId, frames, isProcessing, nextFn, during, dropped,
                   isServer, hasRequestAnimationFrame>>

\* lines 73-83: the loop is over; scheduleFlush when updates were added meanwhile
FlushEnd ==
    /\ isProcessing
    /\ flushQueue = <<>>
    /\ batchEvent' = [op |-> "end", fn |-> 0, id |-> NoId, priority |-> "none",
                      replace |-> FALSE, duplicate |-> FALSE]
    /\ IF ~hasNewUpdates(pendingUpdates)
       THEN /\ isProcessing' = FALSE
            /\ UNCHANGED <<pendingUpdates, rafId, frames, flushQueue, lastFlush>>
       ELSE IF isServer
       THEN FlushStarted(pendingUpdates, "server") /\ UNCHANGED frames
       ELSE /\ isProcessing' = FALSE
            /\ rafId' = scheduleFlushIn(pendingUpdates, rafId, hasRequestAnimationFrame)
            /\ IF rafId = "null" /\ rafId' = "frame"
               THEN frames < MaxFrames /\ frames' = frames + 1
               ELSE UNCHANGED frames
            /\ UNCHANGED <<pendingUpdates, flushQueue, lastFlush>>
    /\ UNCHANGED <<nextFn, during, dropped, isServer, hasRequestAnimationFrame, runs>>

\* a scheduler just created, on a server or in a browser with or without
\* requestAnimationFrame
InitBatch ==
    /\ pendingUpdates = NoPending
    /\ rafId = "null"
    /\ isServer \in BOOLEAN
    /\ hasRequestAnimationFrame \in BOOLEAN
    /\ isServer => ~hasRequestAnimationFrame
    /\ isProcessing = FALSE
    /\ flushQueue = <<>>
    /\ frames = 0
    /\ nextFn = 1
    /\ lastFlush = NoFlush
    /\ batchEvent = [op |-> "none", fn |-> 0, id |-> NoId, priority |-> "none",
                     replace |-> FALSE, duplicate |-> FALSE]
    /\ runs = [f \in Fns |-> 0]
    /\ dropped = {}
    /\ during = {}

\* the scheduler of a store: the same, with no call of its own in progress
InitNoBatch ==
    /\ hasRequestAnimationFrame = TRUE
    /\ isProcessing = FALSE
    /\ flushQueue = <<>>
    /\ frames = 0
    /\ nextFn = 1
    /\ lastFlush = NoFlush
    /\ batchEvent = [op |-> "none", fn |-> 0, id |-> NoId, priority |-> "none",
                     replace |-> FALSE, duplicate |-> FALSE]
    /\ runs = [f \in Fns |-> 0]
    /\ dropped = {}
    /\ during = {}

(***************************************************************************)
(* AsyncActionManager (internal/AsyncActionManager.ts)                     *)
(***************************************************************************)
MaxCalls == 3
MaxPayload == 2
AsyncKeys == {"load", "save"}
Requests == 1..MaxCalls
NoReq == 0

\* errors: null, an error of the operation, the Error the watchdog passes to
\* abort(), a DOMException AbortError, a DOMException AbortError whose
\* message includes 'timed out'
OpError == "OpError"
TimeoutReason == "TimeoutReason"
AbortError == "AbortError"
AbortTimedOut == "AbortTimedOut"
NoError == "null"

IdleStatus == [pending |-> FALSE, error |-> NoError, loaded |-> FALSE]
PendingStatus == [pending |-> TRUE, error |-> NoError, loaded |-> FALSE]
LoadedStatus == [pending |-> FALSE, error |-> NoError, loaded |-> TRUE]
\* a manager that leaves loaded as it is when it records an error
errorWhileLoaded(e) == [pending |-> FALSE, error |-> e, loaded |-> TRUE]
ErrorStatus(e) == [pending |-> FALSE, error |-> e, loaded |-> FALSE]

NoResult == [settled |-> FALSE, success |-> FALSE, error |-> NoError, state |-> <<>>]
Success(p) == [settled |-> TRUE, success |-> TRUE, error |-> NoError, state |-> p]
Failure(e) == [settled |-> TRUE, success |-> FALSE, error |-> e, state |-> <<>>]

\* a call: its operation, whether it runs or has settled, its AbortSignal
\* (not aborted, aborted, aborted by the watchdog), and as history: whether
\* the watchdog cancelled it, the running call it superseded, the state when
\* it was invoked, and what its caller's promise resolved with
NoCall == [key |-> "none", phase |-> "none", signal |-> "none", timedOut |-> FALSE,
           supersedes |-> 0, stateAtInvoke |-> <<>>, result |-> NoResult]

\* the partial states an operation may resolve with
ResultKey(key) == IF key = "load" THEN "x" ELSE "y"
ResultStates(key) == {[k \in {ResultKey(key)} |-> Num(n)] : n \in 1..MaxPayload}

\* what the operation can do when it settles: it resolves with a result or
\* throws.  It can throw its signal's abort reason, or a DOMException
\* AbortError, once its signal is aborted; the reason and a 'timed out'
\* message exist only when the watchdog aborted it.
Outcomes(c) ==
    {"success", "failure", "throwError"}
    \cup (IF c.signal # "none" THEN {"throwAbort"} ELSE {})
    \cup (IF c.signal = "timedout" THEN {"throwReason", "throwAbortTimedOut"} ELSE {})

\* lines 81-143: the wrapper up to its await
Invoke(key) ==
    /\ nextRequest < MaxCalls
    /\ LET requestId == nextRequest + 1
           prev == activeActionRequests[key]
           hadController == prev # NoReq /\ prev \in abortControllers
           last == lastInvoked[key]
       IN  /\ nextRequest' = requestId
           /\ calls' = [calls EXCEPT
                  ![requestId] = [NoCall EXCEPT !.key = key, !.phase = "running",
                      !.stateAtInvoke = state,
                      !.supersedes = IF calls[last].phase = "running" THEN last ELSE NoReq],
                  ![prev] = IF hadController THEN [@ EXCEPT !.signal = "aborted"] ELSE @]
           /\ abortControllers' = (abortControllers \ {prev}) \cup {requestId}
           /\ timers' = (IF prev \in timeoutIds THEN timers \ {prev} ELSE timers)
                        \cup {requestId}
           /\ timeoutIds' = (timeoutIds \ {prev}) \cup {requestId}
           /\ activeActionRequests' = [activeActionRequests EXCEPT ![key] = requestId]
           /\ asyncStateMap' = [asyncStateMap EXCEPT ![key] = PendingStatus]
           /\ lastInvoked' = [lastInvoked EXCEPT ![key] = requestId]
           /\ asyncEvent' = [type |-> "invoke", id |-> requestId]
    /\ UNCHANGED state

\* lines 125-140: the watchdog's timer callback
WatchdogApplies(id) ==
    /\ asyncStateMap[calls[id].key].pending
    /\ activeActionRequests[calls[id].key] = id

WatchdogFire(id) ==
    /\ id \in timers
    /\ timers' = timers \ {id}
    /\ IF WatchdogApplies(id)
       THEN /\ calls' = [calls EXCEPT ![id] =
                   IF id \in abortControllers
                   THEN [@ EXCEPT !.signal = "timedout", !.timedOut = TRUE]
                   ELSE [@ EXCEPT !.timedOut = TRUE]]
            /\ abortControllers' = abortControllers \ {id}
            /\ activeActionRequests' = [activeActionRequests EXCEPT ![calls[id].key] = NoReq]
            /\ timeoutIds' = timeoutIds \ {id}
       ELSE UNCHANGED <<calls, abortControllers, activeActionRequests, timeoutIds>>
    /\ asyncEvent' = [type |-> "watchdog", id |-> id]
    /\ UNCHANGED <<state, asyncStateMap, nextRequest, lastInvoked>>

\* lines 146-217: what the wrapper does with the settled operation:
\* the status it writes (or none), the partial state it merges, its result
IsActive(id) == activeActionRequests[calls[id].key] = id

Settlement(id, outcome, p) ==
    CASE outcome = "success" ->
           IF ~IsActive(id)
           THEN [write |-> FALSE, status |-> IdleStatus, merge |-> FALSE, result |-> Success(p)]
           ELSE [write |-> TRUE, status |-> LoadedStatus, merge |-> TRUE, result |-> Success(p)]
      [] outcome = "failure" ->
           IF ~IsActive(id)
           THEN [write |-> FALSE, status |-> IdleStatus, merge |-> FALSE, result |-> Failure(OpError)]
           ELSE [write |-> TRUE, status |-> ErrorStatus(OpError), merge |-> FALSE,
                 result |-> Failure(OpError)]
      [] outcome = "throwAbortTimedOut" ->
           [write |-> TRUE, status |-> ErrorStatus(AbortTimedOut), merge |-> FALSE,
            result |-> Failure(AbortTimedOut)]
      [] outcome = "throwAbort" ->
           [write |-> FALSE, status |-> IdleStatus, merge |-> FALSE, result |-> Failure(AbortError)]
      [] OTHER ->
           LET e == IF outcome = "throwReason" THEN TimeoutReason ELSE OpError
           IN  IF ~IsActive(id)
               THEN [write |-> FALSE, status |-> IdleStatus, merge |-> FALSE, result |-> Failure(e)]
               ELSE [write |-> TRUE, status |-> ErrorStatus(e), merge |-> FALSE,
                     result |-> Failure(e)]

\* a finally block that leaves the watchdog armed
neverClears(status, id) == FALSE

\* lines 220-226: the watchdog of the call is cleared unless the status is pending
ClearsTimeout(status, id) == ~status.pending /\ id \in timeoutIds

\* a step that neither calls the store's _setState nor flushes its scheduler
StoreIdle ==
    /\ notification' = <<>>
    /\ evaluated' = <<>>
    /\ UNCHANGED <<computedManager, pendingUpdates, rafId, isServer,
                   subscriptionTree, subscriberObjs, nextSubscriberId, now>>

\* lines 146-236: the operation settles; the rest of the wrapper and its
\* finally block run; this.setState(result.state) is the store's _setState
Settle(id, outcome, p) ==
    /\ calls[id].phase = "running"
    /\ outcome \in Outcomes(calls[id])
    /\ LET key == calls[id].key
           r == Settlement(id, outcome, p)
           status == IF r.write THEN r.status ELSE asyncStateMap[key]
           clear == ClearsTimeout(status, id)
       IN  /\ asyncStateMap' = [asyncStateMap EXCEPT ![key] = status]
           /\ IF r.merge THEN SetState(p, DefaultUpdateOptions)
              ELSE UNCHANGED state /\ StoreIdle
           /\ calls' = [calls EXCEPT ![id] =
                  [@ EXCEPT !.phase = "settled", !.result = r.result]]
           /\ timers' = IF clear THEN timers \ {id} ELSE timers
           /\ timeoutIds' = IF clear THEN timeoutIds \ {id} ELSE timeoutIds
           /\ abortControllers' = abortControllers \ {id}
           /\ activeActionRequests' =
                  IF IsActive(id) THEN [activeActionRequests EXCEPT ![key] = NoReq]
                  ELSE activeActionRequests
    /\ asyncEvent' = [type |-> "settle", id |-> id]
    /\ UNCHANGED <<nextRequest, lastInvoked>>

\* executeParallel (lines 278-295).  The call is its list of action keys, its
\* concurrencyLimit, the request ids of the wrapper calls made so far (in the
\* order of the list) and the array its promise resolved with.
MaxActions == 3

NoParallel == [phase |-> "none", actions |-> <<>>, limit |-> 0, ids |-> <<>>, results |-> <<>>]

\* the action lists and limits tried
ActionLists == UNION {[1..n -> AsyncKeys] : n \in 0..MaxActions}
ConcurrencyLimits == 1..MaxActions

\* the wrapper calls of the batch that have not settled
RunningOf(batch) == {i \in 1..Len(batch.ids) : calls[batch.ids[i]].phase = "running"}

\* an array that holds only the calls that succeeded
succeededOnly(batch) ==
    LET all == [i \in 1..Len(batch.ids) |->
                   [key |-> batch.actions[i], result |-> calls[batch.ids[i]].result]]
    IN  SelectSeq(all, LAMBDA e : e.result.success)

\* lines 287-294: map(...).toArray() gives { key, result } for every action, in
\* the order of the list
ParallelResults(batch) ==
    [i \in 1..Len(batch.ids) |->
        [key |-> batch.actions[i], result |-> calls[batch.ids[i]].result]]

\* executeParallel(actions, concurrencyLimit) is called
ExecuteParallel(actions, limit) ==
    /\ parallel.phase = "none"
    /\ parallel' = [NoParallel EXCEPT !.phase = "running", !.actions = actions,
                                      !.limit = limit]
    /\ asyncEvent' = [type |-> "parallel", id |-> NoReq]
    /\ UNCHANGED <<state, asyncStateMap, activeActionRequests, abortControllers,
                   timeoutIds, timers, calls, nextRequest, lastInvoked>>

\* lines 289-293: with fewer than concurrencyLimit calls running, the next action
\* of the list is called through its wrapper
ParallelStart ==
    /\ parallel.phase = "running"
    /\ Len(parallel.ids) < Len(parallel.actions)
    /\ Cardinality(RunningOf(parallel)) < parallel.limit
    /\ Invoke(parallel.actions[Len(parallel.ids) + 1])
    /\ parallel' = [parallel EXCEPT !.ids = Append(@, nextRequest + 1)]

\* line 294: every call has resolved, the promise of executeParallel resolves
ParallelReturn ==
    /\ parallel.phase = "running"
    /\ Len(parallel.ids) = Len(parallel.actions)
    /\ RunningOf(parallel) = {}
    /\ parallel' = [parallel EXCEPT !.phase = "returned",
                                    !.results = ParallelResults(parallel)]
    /\ asyncEvent' = [type |-> "return", id |-> NoReq]
    /\ UNCHANGED <<state, asyncStateMap, activeActionRequests, abortControllers,
                   timeoutIds, timers, calls, nextRequest, lastInvoked>>

(***************************************************************************)
(* LRUCache (utils/lruCache.ts).  A node is known by its key: the map      *)
(* holds at most one node per key, and a node that left the list is        *)
(* never reached again, so its links are reset when it leaves.             *)
(***************************************************************************)
MaxCapacity == 2
NKeys == 3

LruKeys == 1..NKeys
LruValues == {1, 2}
Nil == 0
NoTtl == -1

\* new LRUCache(capacity, ttl)
NewLRUCache(capacity, ttl) ==
    [capacity |-> capacity, ttl |-> ttl, keys |-> {}, head |-> Nil, tail |-> Nil,
     next |-> [k \in LruKeys |-> Nil], prev |-> [k \in LruKeys |-> Nil],
     value |-> [k \in LruKeys |-> Nil], timestamps |-> [k \in LruKeys |-> 0]]

\* a node leaves the map (cache.delete, timestamps.delete)
Forget(c, k) ==
    [c EXCEPT !.keys = @ \ {k}, !.timestamps[k] = 0, !.value[k] = Nil,
              !.next[k] = Nil, !.prev[k] = Nil]

\* a cache that leaves every node where it is
keepPlace(c, k) == c

\* lines 256-285; Unlinked is the list with the node taken out
Unlinked(c, k) ==
    [c EXCEPT !.next = IF c.prev[k] # Nil THEN [@ EXCEPT ![c.prev[k]] = c.next[k]] ELSE @,
              !.prev = IF c.next[k] # Nil THEN [@ EXCEPT ![c.next[k]] = c.prev[k]] ELSE @,
              !.tail = IF k = c.tail THEN c.prev[k] ELSE @]

Linked(c, k) ==
    [c EXCEPT !.prev = IF c.head # Nil THEN [@ EXCEPT ![k] = Nil, ![c.head] = k]
                       ELSE [@ EXCEPT ![k] = Nil],
              !.next[k] = c.head,
              !.head = k,
              !.tail = IF c.tail = Nil THEN k ELSE @]

moveToHead(c, k) == IF k = c.head THEN c ELSE Linked(Unlinked(c, k), k)

\* lines 290-305
removeTail(c) ==
    IF c.tail = Nil THEN c
    ELSE LET last == c.prev[c.tail]
         IN  Forget([c EXCEPT !.tail = last,
                              !.next = IF last # Nil THEN [@ EXCEPT ![last] = Nil] ELSE @,
                              !.head = IF last = Nil THEN Nil ELSE @],
                    c.tail)

\* a delete that takes the node out of the map and leaves the list as it is
mapOnlyDelete(c, k) == IF k \notin c.keys THEN c ELSE Forget(c, k)

\* lines 168-199
delete(c, k) ==
    IF k \notin c.keys THEN c
    ELSE Forget([c EXCEPT
                    !.next = IF c.prev[k] # Nil THEN [@ EXCEPT ![c.prev[k]] = c.next[k]] ELSE @,
                    !.head = IF c.prev[k] # Nil THEN @ ELSE c.next[k],
                    !.prev = IF c.next[k] # Nil THEN [@ EXCEPT ![c.next[k]] = c.prev[k]] ELSE @,
                    !.tail = IF c.next[k] # Nil THEN @ ELSE c.prev[k]],
                k)

\* a cache whose entries never expire
neverExpired(c, k, time) == FALSE

\* lines 71-78 and 151-158: now - timestamp > ttl
Expired(c, k, time) == c.ttl # NoTtl /\ time - c.timestamps[k] > c.ttl

Stamp(c, k, time) == IF c.ttl # NoTtl THEN [c EXCEPT !.timestamps[k] = time] ELSE c

\* lines 64-88: the cache afterwards and the value returned
get(c, k, time) ==
    IF k \notin c.keys THEN [cache |-> c, result |-> Nil]
    ELSE IF Expired(c, k, time) THEN [cache |-> delete(c, k), result |-> Nil]
    ELSE [cache |-> moveToHead(Stamp(c, k, time), k), result |-> c.value[k]]

\* lines 120-130: the new node goes in front of the head
Inserted(c, k, v) ==
    [c EXCEPT !.keys = @ \cup {k},
              !.value[k] = v,
              !.next[k] = c.head,
              !.prev = IF c.head # Nil THEN [@ EXCEPT ![c.head] = k] ELSE @,
              !.head = k,
              !.tail = IF c.head = Nil THEN k ELSE @]

\* lines 96-137
set(c, k, v, time) ==
    IF k \in c.keys
    THEN Stamp(moveToHead([c EXCEPT !.value[k] = v], k), k, time)
    ELSE Stamp(Inserted(IF Cardinality(c.keys) >= c.capacity THEN removeTail(c) ELSE c, k, v),
               k, time)

\* lines 145-161
has(c, k, time) ==
    IF k \notin c.keys THEN [cache |-> c, result |-> FALSE]
    ELSE IF Expired(c, k, time) THEN [cache |-> delete(c, k), result |-> FALSE]
    ELSE [cache |-> c, result |-> TRUE]

\* lines 203-208
clear(c) == NewLRUCache(c.capacity, c.ttl)

\* lines 230-250: every expired key is deleted; the number of them is returned
RECURSIVE DeleteAll(_, _)
DeleteAll(c, ks) ==
    IF ks = {} THEN c
    ELSE LET k == CHOOSE x \in ks : TRUE IN DeleteAll(delete(c, k), ks \ {k})

purgeExpired(c, time) ==
    LET expired == {k \in c.keys : Expired(c, k, time)}
    IN  [cache |-> DeleteAll(c, expired), result |-> Cardinality(expired)]

\* the keys of `used` still in the cache, k in front if it was set or fetched;
\* lruEvent.promoted holds the keys whose last use was a get that found them
\* behind another key
UsedAfter(used, c, k, touched) ==
    (IF touched /\ k \in c.keys THEN <<k>> ELSE <<>>)
    \o SelectSeq(used, LAMBDA u : u \in c.keys /\ ~(touched /\ u = k))

LruStep(c, op, k, result, touched) ==
    /\ lruCache' = c
    /\ lruUsed' = UsedAfter(lruUsed, c, k, touched)
    /\ lruEvent' = [op |-> op, key |-> k, result |-> result,
                    evicted |-> lruCache.keys \ c.keys,
                    promoted |->
                        IF op = "get" /\ touched /\ Head(lruUsed) # k
                        THEN lruEvent.promoted \cup {k}
                        ELSE (lruEvent.promoted \cap c.keys)
                             \ (IF op = "set" THEN {k} ELSE {})]
    /\ UNCHANGED now

LruSet(k, v) == LruStep(set(lruCache, k, v, now), "set", k, Nil, TRUE)

LruGet(k) ==
    \E r \in {get(lruCache, k, now)} : LruStep(r.cache, "get", k, r.result, r.result # Nil)

LruHas(k) ==
    \E r \in {has(lruCache, k, now)} : LruStep(r.cache, "has", k, r.result, FALSE)

LruDelete(k) == LruStep(delete(lruCache, k), "delete", k, k \in lruCache.keys, FALSE)

LruClear == LruStep(clear(lruCache), "clear", Nil, Nil, FALSE)

LruPurgeExpired ==
    \E r \in {purgeExpired(lruCache, now)} :
        LruStep(r.cache, "purgeExpired", Nil, r.result, FALSE)

\* Date.now() advances
LruTick ==
    /\ now < MaxTime
    /\ now' = now + 1
    /\ lruEvent' = [lruEvent EXCEPT !.op = "tick", !.evicted = {}]
    /\ UNCHANGED <<lruCache, lruUsed>>

InitLRU(capacities, ttls) ==
    /\ \E capacity \in capacities, ttl \in ttls : lruCache = NewLRUCache(capacity, ttl)
    /\ lruUsed = <<>>
    /\ lruEvent = [op |-> "new", key |-> Nil, result |-> Nil, evicted |-> {}, promoted |-> {}]

InitState == state = [k \in Range(StateKeys) |-> IF k = "a" THEN Obj(1) ELSE Num(0)]

InitAsync ==
    /\ asyncStateMap = [k \in AsyncKeys |-> IdleStatus]
    /\ activeActionRequests = [k \in AsyncKeys |-> NoReq]
    /\ abortControllers = {}
    /\ timeoutIds = {}
    /\ timers = {}
    /\ calls = [id \in 0..MaxCalls |-> NoCall]
    /\ nextRequest = 0
    /\ lastInvoked = [k \in AsyncKeys |-> NoReq]
    /\ parallel = NoParallel
    /\ asyncEvent = [type |-> "init", id |-> NoReq]

(***************************************************************************)
(* ErrorBoundary (utils/errorBoundary.ts), with the default options of     *)
(* globalErrorBoundary.  Whether the function handed to safeExecute throws *)
(* is the caller's matter: every call and every retry may throw or return. *)
(***************************************************************************)
\* DEFAULT_OPTIONS.maxRecoveryAttempts
maxRecoveryAttempts == 3

\* the retries that may wait for their timer at once
MaxTimers == 4

\* the contexts safeAction is called with: { actionType, statePath }, "" for a
\* statePath that is undefined
Contexts == {[actionType |-> "setState", statePath |-> p] : p \in {"", "a", "global"}}

\* lines 241-243: `${actionType || 'unknown'}_${statePath || 'global'}`
getContextId(context) ==
    <<IF context.actionType = "" THEN "unknown" ELSE context.actionType,
      IF context.statePath = "" THEN "global" ELSE context.statePath>>

ContextIds == {getContextId(c) : c \in Contexts}

\* a boundary that takes every context for recoverable
alwaysRecover(attempts, context) == TRUE

\* lines 183-192
canRecover(attempts, context) == attempts[getContextId(context)] < maxRecoveryAttempts

NoBoundaryEvent == [op |-> "none", id |-> <<>>, threw |-> FALSE, returned |-> "none"]

\* safeExecute(fn, context, fallback), lines 125-178, with attemptRecovery up to
\* the setTimeout (lines 197-219): it returns fn's result, or the promise of a
\* retry, or the fallback
SafeExecute(context, throws) ==
    \E id \in {getContextId(context)} :
       IF ~throws
       THEN /\ boundaryEvent' = [op |-> "call", id |-> id, threw |-> FALSE,
                                 returned |-> "result"]
            /\ UNCHANGED <<recoveryAttempts, retryTimers, unrecovered>>
       ELSE IF canRecover(recoveryAttempts, context)
       THEN /\ retryTimers[id] < MaxTimers
            /\ recoveryAttempts' = [recoveryAttempts EXCEPT ![id] = @ + 1]
            /\ retryTimers' = [retryTimers EXCEPT ![id] = @ + 1]
            /\ unrecovered' = [unrecovered EXCEPT ![id] = @ + 1]
            /\ boundaryEvent' = [op |-> "call", id |-> id, threw |-> TRUE,
                                 returned |-> "promise"]
       ELSE /\ boundaryEvent' = [op |-> "call", id |-> id, threw |-> TRUE,
                                 returned |-> "fallback"]
            /\ UNCHANGED <<recoveryAttempts, retryTimers, unrecovered>>

\* the timer of attemptRecovery fires, lines 219-234: fn is called once more;
\* its result resolves the promise and the counter of the context is deleted, or
\* it throws again and the fallback resolves the promise
RetryFire(id, throws) ==
    /\ retryTimers[id] > 0
    /\ retryTimers' = [retryTimers EXCEPT ![id] = @ - 1]
    /\ recoveryAttempts' = IF throws THEN recoveryAttempts
                           ELSE [recoveryAttempts EXCEPT ![id] = 0]
    /\ unrecovered' = IF throws THEN unrecovered ELSE [unrecovered EXCEPT ![id] = 0]
    /\ boundaryEvent' = [op |-> "retry", id |-> id, threw |-> throws,
                         returned |-> IF throws THEN "fallback" ELSE "result"]

\* new ErrorBoundary()
InitNoRetry ==
    /\ recoveryAttempts = [id \in ContextIds |-> 0]
    /\ retryTimers = [id \in ContextIds |-> 0]
    /\ unrecovered = [id \in ContextIds |-> 0]
    /\ boundaryEvent = NoBoundaryEvent

vars == <<state, asyncVars, treeVars, storeVars, notifyVars, lruVars, batchVars, retryVars>>

InitNoCache == InitLRU({1}, {NoTtl})

Init ==
    InitState /\ InitAsync /\ InitTree /\ InitStore /\ InitNotify /\ InitNoCache /\ InitNoBatch /\ InitNoRetry

NextAsync ==
    \/ \E key \in AsyncKeys : Invoke(key) /\ StoreIdle /\ UNCHANGED <<parallel, notifyVars, lruVars, batchVars, retryVars>>
    \/ \E id \in Requests : WatchdogFire(id) /\ StoreIdle /\ UNCHANGED <<parallel, notifyVars, lruVars, batchVars, retryVars>>
    \/ \E id \in Requests, o \in {"success", "failure", "throwError", "throwAbort",
                                   "throwReason", "throwAbortTimedOut"} :
          \E p \in ResultStates(calls[id].key) :
             Settle(id, o, p) /\ UNCHANGED <<parallel, notifyVars, lruVars, batchVars, retryVars>>
    \/ FlushUpdates /\ UNCHANGED <<asyncVars, notifyVars, lruVars, batchVars, retryVars>>

SpecAsync == Init /\ [][NextAsync]_vars

\* executeParallel is the only caller of the operations
NextParallel ==
    \/ \E actions \in ActionLists, limit \in ConcurrencyLimits :
          ExecuteParallel(actions, limit) /\ StoreIdle
              /\ UNCHANGED <<notifyVars, lruVars, batchVars, retryVars>>
    \/ ParallelStart /\ StoreIdle /\ UNCHANGED <<notifyVars, lruVars, batchVars, retryVars>>
    \/ \E id \in Requests : WatchdogFire(id) /\ StoreIdle /\ UNCHANGED <<parallel, notifyVars, lruVars, batchVars, retryVars>>
    \/ \E id \in Requests, o \in {"success", "failure", "throwError", "throwAbort",
                                   "throwReason", "throwAbortTimedOut"} :
          \E p \in ResultStates(calls[id].key) :
             Settle(id, o, p) /\ UNCHANGED <<parallel, notifyVars, lruVars, batchVars, retryVars>>
    \/ ParallelReturn /\ StoreIdle /\ UNCHANGED <<notifyVars, lruVars, batchVars, retryVars>>
    \/ FlushUpdates /\ UNCHANGED <<asyncVars, notifyVars, lruVars, batchVars, retryVars>>

SpecParallel == Init /\ [][NextParallel]_vars

NextTree ==
    \/ \E in \in SubscribeInputs :
          /\ Subscribe(in.paths, in.options)
          /\ UNCHANGED <<state, asyncVars, storeVars, notifyVars, lruVars, batchVars, retryVars>>
    \/ \E id \in SubIds :
          Unsubscribe(id) /\ UNCHANGED <<state, asyncVars, storeVars, notifyVars, lruVars, batchVars, retryVars>>
    \/ \E changedPaths \in ChangedPathLists :
          /\ NotifySubscribers(changedPaths)
          /\ UNCHANGED <<state, asyncVars, storeVars, notifyVars, lruVars, batchVars, retryVars>>
    \/ Tick /\ UNCHANGED <<state, asyncVars, storeVars, notifyVars, lruVars, batchVars, retryVars>>

SpecTree == Init /\ [][NextTree]_vars

NextStore ==
    \/ \E u \in Updates, options \in UpdateOptionsTried :
          SetState(u, options) /\ UNCHANGED <<asyncVars, notifyVars, lruVars, batchVars, retryVars>>
    \/ FlushUpdates /\ UNCHANGED <<asyncVars, notifyVars, lruVars, batchVars, retryVars>>
    \/ \E paths \in StoreSubscribeInputs :
          /\ Subscribe(paths, DefaultOptions)
          /\ evaluated' = <<>>
          /\ UNCHANGED <<state, asyncVars, computedManager, pendingUpdates, rafId, isServer,
                         notifyVars, lruVars, batchVars, retryVars>>
    \/ /\ Tick
       /\ evaluated' = <<>>
       /\ UNCHANGED <<state, asyncVars, computedManager, pendingUpdates, rafId, isServer,
                      notifyVars, lruVars, batchVars, retryVars>>

SpecStore == Init /\ [][NextStore]_vars

NextNotify ==
    \/ \E in \in NotifySubscribeInputs :
          TreeSubscribe(in.paths, in.options) /\ UNCHANGED <<state, asyncVars, storeVars, lruVars, batchVars, retryVars>>
    \/ \E id \in SubIds : TreeDispose(id) /\ UNCHANGED <<state, asyncVars, storeVars, lruVars, batchVars, retryVars>>
    \/ \E changedPaths \in NotifyPathLists :
          NotifyBegin(changedPaths) /\ UNCHANGED <<state, asyncVars, storeVars, lruVars, batchVars, retryVars>>
    \/ CallbackStart /\ UNCHANGED <<state, asyncVars, storeVars, lruVars, batchVars, retryVars>>
    \/ \E throws \in BOOLEAN : CallbackEnd(throws) /\ UNCHANGED <<state, asyncVars, storeVars, lruVars, batchVars, retryVars>>
    \/ NotifyEnd /\ UNCHANGED <<state, asyncVars, storeVars, lruVars, batchVars, retryVars>>
    \/ NotifyTick /\ UNCHANGED <<state, asyncVars, storeVars, lruVars, batchVars, retryVars>>

SpecNotify == Init /\ [][NextNotify]_vars

InitCycle ==
    /\ InitState /\ InitAsync /\ InitTree /\ InitNotify /\ InitCyclicStore /\ InitNoCache
    /\ InitNoBatch /\ InitNoRetry

NextCycle ==
    \/ \E u \in Updates, options \in UpdateOptionsTried :
          SetState(u, options) /\ UNCHANGED <<asyncVars, notifyVars, lruVars, batchVars, retryVars>>
    \/ FlushUpdates /\ UNCHANGED <<asyncVars, notifyVars, lruVars, batchVars, retryVars>>
    \/ BuildGraph /\ UNCHANGED <<asyncVars, notifyVars, lruVars, batchVars, retryVars>>

SpecCycle == InitCycle /\ [][NextCycle]_vars

InitCache ==
    /\ InitState /\ InitAsync /\ InitTree /\ InitStore /\ InitNotify /\ InitNoBatch /\ InitNoRetry
    /\ InitLRU(1..MaxCapacity, {NoTtl, 0, 1})

OutsideCache ==
    /\ notification' = <<>>
    /\ evaluated' = <<>>
    /\ UNCHANGED <<state, asyncVars, subscriptionTree, subscriberObjs, nextSubscriberId,
                   computedManager, pendingUpdates, rafId, isServer, notifyVars, batchVars, retryVars>>

NextCache ==
    \/ \E k \in LruKeys, v \in LruValues : LruSet(k, v) /\ OutsideCache
    \/ \E k \in LruKeys : LruGet(k) /\ OutsideCache
    \/ \E k \in LruKeys : LruHas(k) /\ OutsideCache
    \/ \E k \in LruKeys : LruDelete(k) /\ OutsideCache
    \/ LruClear /\ OutsideCache
    \/ LruPurgeExpired /\ OutsideCache
    \/ LruTick /\ OutsideCache

SpecCache == InitCache /\ [][NextCache]_vars

InitComputed ==
    /\ InitState /\ InitAsync /\ InitTree /\ InitNotify /\ InitFailingStore /\ InitNoCache
    /\ InitNoBatch /\ InitNoRetry

NextComputed ==
    \/ \E u \in Updates, options \in UpdateOptionsTried :
          SetState(u, options) /\ UNCHANGED <<asyncVars, notifyVars, lruVars, batchVars, retryVars>>
    \/ FlushUpdates /\ UNCHANGED <<asyncVars, notifyVars, lruVars, batchVars, retryVars>>
    \/ BuildGraph /\ UNCHANGED <<asyncVars, notifyVars, lruVars, batchVars, retryVars>>

SpecComputed == InitComputed /\ [][NextComputed]_vars

InitConditional ==
    /\ InitState /\ InitAsync /\ InitTree /\ InitNotify /\ InitConditionalStore
    /\ InitNoCache /\ InitNoBatch /\ InitNoRetry

NextConditional ==
    \/ \E u \in Updates, options \in UpdateOptionsTried :
          SetState(u, options) /\ UNCHANGED <<asyncVars, notifyVars, lruVars, batchVars, retryVars>>
    \/ FlushUpdates /\ UNCHANGED <<asyncVars, notifyVars, lruVars, batchVars, retryVars>>
    \/ BuildGraph /\ UNCHANGED <<asyncVars, notifyVars, lruVars, batchVars, retryVars>>

SpecConditional == InitConditional /\ [][NextConditional]_vars

\* the error boundary alone
OutsideBoundary ==
    UNCHANGED <<state, asyncVars, treeVars, storeVars, notifyVars, lruVars, batchVars>>

NextRetry ==
    \/ \E context \in Contexts, throws \in BOOLEAN :
          SafeExecute(context, throws) /\ OutsideBoundary
    \/ \E id \in ContextIds, throws \in BOOLEAN : RetryFire(id, throws) /\ OutsideBoundary

SpecRetry == Init /\ [][NextRetry]_vars

\* the scheduler alone: what its update functions do to a store is left out
OutsideBatch ==
    UNCHANGED <<state, asyncVars, treeVars, computedManager, evaluated, notifyVars, lruVars,
                retryVars>>

InitScheduler ==
    /\ InitState /\ InitAsync /\ InitTree /\ InitNotify /\ InitNoCache /\ InitBatch
    /\ InitNoRetry
    /\ computedManager = NewComputedManager(state)
    /\ evaluated = <<>>

NextBatch ==
    \/ \E priority \in Priorities, id \in BatchIds, replace \in BOOLEAN :
          BatchSchedule(priority, id, replace) /\ OutsideBatch
    \/ \E id \in BatchIds : BatchCancel(id) /\ OutsideBatch
    \/ BatchFlushImmediately /\ OutsideBatch
    \/ TimeoutFire /\ OutsideBatch
    \/ FrameFire /\ OutsideBatch
    \/ RunUpdate /\ OutsideBatch
    \/ FlushEnd /\ OutsideBatch

SpecBatch == InitScheduler /\ [][NextBatch]_vars

\* the event loop runs every armed timer and requested animation frame in the
\* end, and the loop of a flush goes on to its end
SpecBatchLive ==
    /\ SpecBatch
    /\ WF_vars(TimeoutFire /\ OutsideBatch)
    /\ WF_vars(FrameFire /\ OutsideBatch)
    /\ WF_vars(RunUpdate /\ OutsideBatch)
    /\ WF_vars(FlushEnd /\ OutsideBatch)

(***************************************************************************)
(* Claims on the AsyncActionManager                                        *)
(***************************************************************************)
Settles(id) == calls[id].phase = "running" /\ calls'[id].phase = "settled"

\* C2: a call that is no longer the most recently invoked call for its name
\* when it settles changes neither the shared status nor the state, however
\* it settles.
C2_SupersededSettleChangesNothing ==
    [][\A id \in Requests :
          (Settles(id) /\ lastInvoked[calls[id].key] # id)
              => (asyncStateMap' = asyncStateMap /\ state' = state)]_vars

\* C3: when a name is invoked twice before the first call settles, once both
\* calls have settled the status and the state are those of the second call's
\* outcome.
OutcomeStatus(r) == IF r.success THEN LoadedStatus ELSE ErrorStatus(r.error)

C3_SecondCallWins ==
    \A i \in Requests, j \in Requests :
        LET key == calls[j].key
            f == ResultKey(key)
        IN  ( /\ calls[j].phase = "settled" /\ calls[i].phase = "settled"
              /\ calls[j].supersedes = i /\ lastInvoked[key] = j )
            => /\ asyncStateMap[key] = OutcomeStatus(calls[j].result)
               /\ state[f] = IF calls[j].result.success THEN calls[j].result.state[f]
                             ELSE calls[i].stateAtInvoke[f]

\* C9: when the watchdog of a call that is still pending fires, the call's
\* signal is aborted and the status of its operation is marked error.
WatchdogFires(id) == asyncEvent'.type = "watchdog" /\ asyncEvent'.id = id /\ id \in timers

StillPending(id) == calls[id].phase = "running" /\ lastInvoked[calls[id].key] = id

MarkedError(st) == ~st.pending /\ ~st.loaded /\ st.error # NoError

C9_WatchdogMarksError ==
    [][\A id \in Requests :
          (WatchdogFires(id) /\ StillPending(id))
              => /\ calls'[id].signal = "timedout"
                 /\ MarkedError(asyncStateMap'[calls[id].key])]_vars

\* C10: a call the watchdog cancelled resolves with {success: false, error}
\* whose error is a timeout error, not an error of the operation.
TimeoutErrors == {TimeoutReason, AbortTimedOut}

C10_WatchdogCancelReportedAsTimeout ==
    \A id \in Requests :
        (calls[id].timedOut /\ calls[id].phase = "settled")
            => (~calls[id].result.success /\ calls[id].result.error \in TimeoutErrors)

\* C11: when the most recently invoked call for "load" settles as a failure
\* (it returned {success: false, error} or threw), the status of "load"
\* becomes {pending: false, error: <that error>, loaded: false} and the state
\* is left as it was.
FailsAsLatest(id) ==
    /\ Settles(id)
    /\ calls[id].key = "load"
    /\ lastInvoked["load"] = id
    /\ ~calls'[id].result.success

C11_FailedLoadSetsError ==
    [][\A id \in Requests :
          FailsAsLatest(id)
              => /\ asyncStateMap'["load"] = ErrorStatus(calls'[id].result.error)
                 /\ state' = state]_vars

\* C12: the status of each operation name changes only from idle to pending
\* on an invoke of that name, from pending to loaded when a call of that name
\* succeeds, from pending to error when a call of that name fails, and from
\* loaded or error to pending on a re-invoke; every other step leaves it as
\* it is.
StatusKind(st) ==
    IF st.pending THEN "pending"
    ELSE IF st.loaded THEN "loaded"
    ELSE IF st.error # NoError THEN "error"
    ELSE "idle"

InvokeOf(key) == asyncEvent'.type = "invoke" /\ calls'[asyncEvent'.id].key = key

SettleOf(key, success) ==
    /\ asyncEvent'.type = "settle"
    /\ calls'[asyncEvent'.id].key = key
    /\ calls'[asyncEvent'.id].result.success = success

AllowedStatusChange(key) ==
    LET old == asyncStateMap[key]
        new == asyncStateMap'[key]
    IN  \/ new = old
        \/ /\ StatusKind(old) \in {"idle", "loaded", "error"}
           /\ new = PendingStatus
           /\ InvokeOf(key)
        \/ /\ StatusKind(old) = "pending"
           /\ new = LoadedStatus
           /\ SettleOf(key, TRUE)
        \/ /\ StatusKind(old) = "pending"
           /\ StatusKind(new) = "error"
           /\ SettleOf(key, FALSE)

C12_StatusTransitions ==
    [][\A key \in AsyncKeys : AllowedStatusChange(key)]_vars

\* C13: a subscribe or disposer call made while a notification is in progress
\* leaves the subscription index as it is until the outermost notification
\* has completed; the step that completes it applies the queued changes, so
\* that each subscriber a change was queued for is registered exactly when
\* its last queued change was a subscribe, and every other subscriber is
\* registered as before.
QueuedFor(id) ==
    SelectSeq(pendingSubscriptionChanges, LAMBDA change : change.id = id)

RegisteredAfterChanges(id) ==
    LET queued == QueuedFor(id)
    IN  IF queued = <<>> THEN id \in subscriptionTree.subscriberRegistry
        ELSE queued[Len(queued)].op = "subscribe"

C13_ChangesDeferred ==
    [][/\ (notifyingCounter > 0 /\ notifyingCounter' > 0)
             => subscriptionTree' = subscriptionTree
       /\ (notifyingCounter > 0 /\ notifyingCounter' = 0)
             => /\ pendingSubscriptionChanges' = <<>>
                /\ \A id \in SubIds :
                      id \in subscriptionTree'.subscriberRegistry
                          <=> RegisteredAfterChanges(id)]_vars

C13_DeferredSubscribeApplied ==
    /\ notifyingCounter = 0
    /\ notification # <<>>
    /\ \E i \in 1..Len(notification[1].applied) :
          /\ notification[1].applied[i].op = "subscribe"
          /\ notification[1].applied[i].id \in subscriptionTree.subscriberRegistry
    /\ \E i \in 1..Len(notification[1].applied) :
          /\ notification[1].applied[i].op = "unsubscribe"
          /\ notification[1].applied[i].id \notin subscriptionTree.subscriberRegistry

\* C14: with the computed values P and Q reading each other, no build of the
\* dependency graph and no computed update throws (each completes), and
\* once the graph is built the cycle is detected: P and Q are known as
\* cyclic, that is, left out of the cached order.
CycleKeys == {"P", "Q"}

CycleDetected(cm) ==
    cm.allComputedKeysInOrder.cached
        => CycleKeys \cap Range(cm.allComputedKeysInOrder.keys) = {}

C14_CycleDetectedWithoutThrow ==
    /\ ~computedManager.threw
    /\ CycleDetected(computedManager)

C14_UpdatedAfterBuild ==
    /\ computedManager.allComputedKeysInOrder.cached
    /\ computedManager.computedDependencyGraph.edges = {<<"P", "Q">>, <<"Q", "P">>}
    /\ evaluated # <<>>
    /\ ~computedManager.threw

\* C15: no step puts a key of the cycle into the evaluation order or
\* evaluates it, and every step leaves its cached value as it was.
C15_CyclicKeysKeepValue ==
    [][\A k \in CycleKeys :
          /\ k \notin Range(computedManager'.allComputedKeysInOrder.keys)
          /\ k \notin Range(evaluated')
          /\ computedManager'.computedCache[k] = computedManager.computedCache[k]]_vars

\* a full update has run, and P still holds the value x had at construction
C15_StaleAfterFullUpdate ==
    /\ computedManager.allComputedKeysInOrder.keys = <<"C">>
    /\ evaluated = <<"C">>
    /\ IsObject(state["a"]) /\ state["a"] # Obj(1)
    /\ state["x"] # Num(0)
    /\ computedManager.computedCache["P"] = Num(0)

\* C16: each build of the dependency graph of P and Q produces exactly one
\* warning about the cycle.
C16_OneWarningPerBuild ==
    computedManager.allComputedKeysInOrder.cached => computedManager.warned = 1

\* C17: a set of a key the cache does not hold, made when the cache holds
\* capacity entries, removes exactly one entry, the one set or fetched
\* longest ago, and a get that returns a value makes its key the most
\* recently used one without removing anything.
LeastRecentlyUsed == lruUsed[Len(lruUsed)]

SetsNewKeyWhenFull(k) ==
    /\ lruEvent'.op = "set" /\ lruEvent'.key = k
    /\ k \notin lruCache.keys
    /\ Cardinality(lruCache.keys) = lruCache.capacity

GetsValue(k) == lruEvent'.op = "get" /\ lruEvent'.key = k /\ lruEvent'.result # Nil

C17_EvictsLeastRecentlyUsed ==
    [][\A k \in LruKeys :
          /\ SetsNewKeyWhenFull(k)
                => /\ lruCache'.keys = (lruCache.keys \ {LeastRecentlyUsed}) \cup {k}
                   /\ lruCache'.head = k
          /\ GetsValue(k)
                => /\ lruCache'.keys = lruCache.keys
                   /\ lruCache'.head = k
                   /\ Head(lruUsed') = k]_vars

\* a set has evicted a key while the other key had been promoted by a get
C17_EvictedAfterPromotion ==
    /\ lruCache.capacity = MaxCapacity
    /\ lruEvent.op = "set"
    /\ lruEvent.evicted # {}
    /\ lruEvent.promoted # {}

\* C18: in one notification the callbacks run in descending priority, and
\* callbacks of equal priority run in the order in which their subscribers
\* were registered (subscriber ids are handed out in that order).
RunsBefore(a, b) ==
    \/ subscriberObjs[a].priority > subscriberObjs[b].priority
    \/ subscriberObjs[a].priority = subscriberObjs[b].priority /\ a < b

C18_PriorityThenRegistration ==
    \A n \in 1..Len(notification) :
        \A i \in 1..Len(notification[n].ran), j \in 1..Len(notification[n].ran) :
            i < j => RunsBefore(notification[n].ran[i], notification[n].ran[j])

\* C19: in a notification, a subscriber that is active and affected (it is
\* among those collected for the changed paths) is skipped exactly when it
\* has a throttle interval, its callback has fired before, and less than the
\* interval has passed since; otherwise its callback is invoked, and the
\* time of the notification becomes the time it last fired.
Collected(paths) ==
    Range(subscribersToNotify(<<>>, subscriptionTree, subscriberObjs, paths))

TooSoon(id) ==
    /\ subscriberObjs[id].throttle > 0
    /\ subscriberObjs[id].lastExecuted > 0
    /\ now - subscriberObjs[id].lastExecuted < subscriberObjs[id].throttle

C19_ThrottleSkips ==
    [][notification' # <<>>
          => \A id \in Collected(notification'[1].paths) :
                /\ id \in Range(notification'[1].ran) <=> ~TooSoon(id)
                /\ subscriberObjs'[id].lastExecuted =
                      IF TooSoon(id) THEN subscriberObjs[id].lastExecuted ELSE now]_vars

\* a notification has just skipped a collected subscriber
C19_SkippedOnce ==
    /\ notification # <<>>
    /\ \E id \in Collected(notification[1].paths) :
          /\ subscriberObjs[id].throttle > 0
          /\ subscriberObjs[id].lastExecuted = now
          /\ id \notin Range(notification[1].ran)

\* C20: when a callback throws during a notification, the notification
\* still completes and every subscriber selected for it, other than those
\* skipped by their throttle, has had its callback invoked; each invoked
\* callback either returned or threw.
C20_ThrowDoesNotStopOthers ==
    \A n \in 1..Len(notification) :
        notification[n].threw # <<>>
            => /\ Range(notification[n].selected) \ Range(notification[n].skipped)
                      \subseteq Range(notification[n].called)
               /\ Range(notification[n].called)
                      = Range(notification[n].ran) \cup Range(notification[n].threw)

\* a notification in which a callback threw and a later one returned
C20_RanAfterThrow ==
    /\ notification # <<>>
    /\ \E i \in 1..Len(notification[1].selected), j \in 1..Len(notification[1].selected) :
          /\ i < j
          /\ notification[1].selected[i] \in Range(notification[1].threw)
          /\ notification[1].selected[j] \in Range(notification[1].ran)









(***************************************************************************)
(* Claims on the SubscriptionTree                                          *)
(***************************************************************************)
\* the subscribers registered with exactly the path list `paths` that no throttle holds back
RegisteredOn(paths) ==
    {id \in subscriptionTree.subscriberRegistry :
        subscriberObjs[id].paths = paths /\ ~Throttled(subscriberObjs[id], now)}

Ran == Range(notification'[1].ran)

\* C5: a subscriber registered on a.* is invoked for the changed path a.b and for a.c but
\* not for a.b.d (two levels below a); a subscriber registered on a.** is invoked for both
\* a.b and a.b.d.
C5_WildcardLevels ==
    [][\A p \in ChangedPathUniverse :
          NotifySubscribers(<<p>>) =>
             /\ \A id \in RegisteredOn(<<<<"a", "*">>>>) :
                   /\ p \in {<<"a", "b">>, <<"a", "c">>} => id \in Ran
                   /\ p = <<"a", "b", "d">> => id \notin Ran
             /\ \A id \in RegisteredOn(<<<<"a", "**">>>>) :
                   p \in {<<"a", "b">>, <<"a", "b", "d">>} => id \in Ran]_vars

(***************************************************************************)
(* Claims on the store                                                     *)
(***************************************************************************)
\* s with each key of u overwritten by u's value and every other key kept
Overwritten(s, u) ==
    [k \in DOMAIN s \cup DOMAIN u |-> IF k \in DOMAIN u THEN u[k] ELSE s[k]]

\* C1: after setState(u) returns, the state is the state before with each key of u
\* overwritten by u's value, and every other key holds the very value it held before.
C1_SetStateOverwrites ==
    [][\A u \in Updates, options \in UpdateOptionsTried :
          SetState(u, options) => state' = Overwritten(state, u)]_vars

\* the keys of the state a setState(u) changes
ChangedKeys(u) == updateState(state, u, <<>>).changedKeys

\* C6: with computed C = f(state.x) and D = g(C), a setState that changes state keys
\* other than x re-evaluates neither C nor D; a setState that changes x re-evaluates C
\* and then D.
C6_ComputedReevaluation ==
    [][\A u \in Updates, options \in UpdateOptionsTried :
          SetState(u, options) =>
             /\ "x" \notin ChangedKeys(u) => evaluated' = <<>>
             /\ "x" \in ChangedKeys(u) => evaluated' = <<"C", "D">>]_vars

\* the state a setState(u) leaves behind: every key of u the state has holds u's value
AlreadyApplied(u) == \A k \in DOMAIN u \cap DOMAIN state : state[k] = u[k]

\* a notification is raised by the step: an update is queued under the id of this call,
\* or, on a server, subscribers are notified at once
RaisesNotification ==
    \/ isDuplicateUpdate(pendingUpdates', now) /\ rafId' # "null"
    \/ notification' # <<>>

\* C8: of two setState(u) calls in a row with the identical u, the first raises a
\* notification and the second, made when the state already holds u's values, changes
\* nothing and raises none.
C8_SecondSetStateIsSilent ==
    [][\A u \in Updates :
          SetState(u, DefaultUpdateOptions) =>
             /\ (~AlreadyApplied(u)) => RaisesNotification
             /\ AlreadyApplied(u) =>
                   /\ state' = state
                   /\ pendingUpdates' = pendingUpdates
                   /\ notification' = <<>>]_vars

\* the subscribers the notifications of the step invoked
RanInStep == UNION {Range(notification'[i].ran) : i \in 1..Len(notification')}

\* the step changed what the state holds under a.b: its value, or whether it exists
TouchesAB == Lookup(state, <<"a", "b">>) # Lookup(state', <<"a", "b">>)

\* C4: a subscriber registered on a.b is invoked by the notification of a setState if
\* and only if the update changed a.b, a descendant of a.b, or replaced the ancestor a so
\* that a.b is touched; replacing a so that only the sibling a.c changes never invokes it.
C4_PathSubscriber ==
    [][\A u \in Updates :
          (isServer /\ SetState(u, DefaultUpdateOptions)) =>
             \A id \in RegisteredOn(<<<<"a", "b">>>>) : id \in RanInStep <=> TouchesAB]_vars

\* every subscriber of ids occurs exactly once in ran
OnceEach(ran, ids) ==
    /\ Range(ran) = ids
    /\ Len(ran) = Cardinality(ids)

\* the subscribers registered on the one path x (the scenario's count)
OnCount == RegisteredOn(<<<<"x">>>>)

CountUpdate == [k \in {"x"} |-> Num(MaxNum)]
CountBatch == <<<<"x">>>>

\* C7: from x = 0 with computed C = x * 2 and no update queued, setState({x: MaxNum})
\* leaves C = 2 * MaxNum and raises exactly one notification batch for x: on a server
\* one notification that invokes every subscriber on x once, in a browser one queued
\* update, whose flush invokes every subscriber on x once and empties the queue.
C7_CounterScenario ==
    [][/\ (/\ state["x"] = Num(0)
           /\ pendingUpdates = NoPending
           /\ SetState(CountUpdate, DefaultUpdateOptions))
          => /\ computedManager'.computedCache["C"] = Num(2 * MaxNum)
             /\ isServer =>
                   /\ Len(notification') = 1
                   /\ notification'[1].paths = CountBatch
                   /\ OnceEach(notification'[1].ran, OnCount)
                   /\ pendingUpdates' = NoPending
             /\ ~isServer =>
                   /\ FlushOrder(pendingUpdates') = <<[id |-> now, paths |-> CountBatch]>>
                   /\ rafId' # "null"
                   /\ notification' = <<>>
       /\ (/\ Len(FlushOrder(pendingUpdates)) = 1
           /\ FlushOrder(pendingUpdates)[1].paths = CountBatch
           /\ FlushUpdates)
          => /\ Len(notification') = 1
             /\ OnceEach(notification'[1].ran, OnCount)
             /\ pendingUpdates' = NoPending
             /\ rafId' = "null"]_vars

\* a subscriber on x has been handed the one batch of setState({x: MaxNum}) and the
\* computed value is 2 * MaxNum
C7_BatchObserved ==
    /\ state["x"] = Num(MaxNum)
    /\ computedManager.computedCache["C"] = Num(2 * MaxNum)
    /\ notification = <<[paths |-> CountBatch, ran |-> <<1>>]>>
    /\ pendingUpdates = NoPending

(***************************************************************************)
(* The scheduler of updates                                                *)
(***************************************************************************)
EntriesWith(pending, id) ==
    UNION {{pending[q][i] : i \in {j \in 1..Len(pending[q]) : pending[q][j].id = id}} :
           q \in Range(QueueNames)}

WasQueued(id) == id # NoId /\ EntriesWith(pendingUpdates, id) # {}

\* C21: scheduleUpdate with an id that is already queued and replace true (or
\* not given) takes the queued entry out and queues the new one, last in the
\* queue of its priority, every other entry staying; with replace false it
\* leaves the queues as they are.
C21_ReplaceOrDrop ==
    [][(batchEvent'.op = "schedule" /\ WasQueued(batchEvent'.id))
          => IF batchEvent'.replace
             THEN /\ EntriesWith(pendingUpdates', batchEvent'.id)
                        = {[id |-> batchEvent'.id, fn |-> batchEvent'.fn]}
                  /\ pendingUpdates'[batchEvent'.priority] # <<>>
                  /\ pendingUpdates'[batchEvent'.priority]
                           [Len(pendingUpdates'[batchEvent'.priority])].fn = batchEvent'.fn
                  /\ QueuedFns(pendingUpdates') \ {batchEvent'.fn}
                        = QueuedFns(pendingUpdates)
                            \ {e.fn : e \in EntriesWith(pendingUpdates, batchEvent'.id)}
             ELSE pendingUpdates' = pendingUpdates]_vars

\* an update has just replaced the queued update of its id
C21_Replaced ==
    /\ batchEvent.op = "schedule"
    /\ batchEvent.duplicate
    /\ batchEvent.replace
    /\ batchEvent.fn \in QueuedFns(pendingUpdates)
    /\ Cardinality(QueuedFns(pendingUpdates)) = 2
    /\ dropped # {}

\* the deferred flushes pending: the armed setTimeout timer and the animation
\* frame callbacks requested
DeferredFlushes == frames + (IF rafId \in Timeouts THEN 1 ELSE 0)

QueuedInOrder(queued) == FnsOf(queued.high) \o FnsOf(queued.normal) \o FnsOf(queued.low)

\* C24: a flush calls the update functions that were queued when it started,
\* the high-priority ones first, then the normal ones, then the low ones,
\* each in the order it was queued; when its loop is over it has called
\* every one of them, and no update function is ever called twice.
C24_FlushRunsQueuedInOrder ==
    /\ \A f \in Fns : runs[f] <= 1
    /\ Len(lastFlush.ran) <= Len(QueuedInOrder(lastFlush.queued))
    /\ lastFlush.ran = SubSeq(QueuedInOrder(lastFlush.queued), 1, Len(lastFlush.ran))
    /\ flushQueue = <<>> => lastFlush.ran = QueuedInOrder(lastFlush.queued)

\* a flush is over that called a later scheduled update before an earlier one
C24_HighRanFirst ==
    /\ flushQueue = <<>>
    /\ ~isProcessing
    /\ \E i \in 1..Len(lastFlush.ran), j \in 1..Len(lastFlush.ran) :
          i < j /\ lastFlush.ran[i] > lastFlush.ran[j]

\* C25: an update queued by an update function while a flush is running is
\* in the end called by a later flush, unless a later call replaces or
\* cancels it; and whenever no flush is running and an update is queued, a
\* flush is scheduled.
C25_EnqueuedDuringFlushRuns ==
    /\ []((~isProcessing /\ QueuedFns(pendingUpdates) # {}) => DeferredFlushes >= 1)
    /\ \A f \in Fns :
          (f \in during /\ f \in QueuedFns(pendingUpdates))
              ~> (runs[f] > 0 \/ f \in dropped)

\* an update queued during a flush has been called by a later flush
C25_RanByLaterFlush ==
    \E f \in during :
        /\ runs[f] = 1
        /\ f \in Range(lastFlush.ran)
        /\ f \notin dropped

\* ---- C27 ----
\* two values with the same content: objects with equal fields, where a field
\* holding NaN equals nothing (compare.ts compares primitive fields with ===)
SameContent(a, b) ==
    \/ a.t = "obj" /\ b.t = "obj" /\ ObjFields(a.n) = ObjFields(b.n)
    \/ a.t = "box" /\ b.t = "box" /\ BoxContent(a) = BoxContent(b)
       /\ BoxContent(a) # MaxNum + 1

\* the steps in which the computed function of key returned a value
Reevaluated(key) ==
    /\ state' # state
    /\ key \in Range(evaluated')
    /\ key # computedManager'.failed

\* C27: after a computed key is re-evaluated, its cached value is the previous
\* one if the new result is reference-equal or deep-equal to it, and the new
\* result otherwise
C27_CacheReplacedOnlyIfDifferent ==
    [][\A key \in Range(FailingComputedKeys) :
          Reevaluated(key) =>
              \E prev \in {computedManager.computedCache[key]} :
              \E new \in {RunComputed(key, state', FALSE, computedManager.computedCache).value} :
                  computedManager'.computedCache[key] =
                      IF StrictEq(prev, new) \/ SameContent(prev, new) THEN prev ELSE new]_vars

\* E was called again on a state with the same x: the object cached at
\* construction was kept, not the new one with the same content
C27_EqualObjectKept ==
    /\ "E" \in Range(evaluated)
    /\ computedManager.failed = NoKey
    /\ Lookup(state, <<"x">>) = Num(0)
    /\ computedManager.computedCache["E"] = Box(0, Num(0))

\* ---- C28 ----
\* the steps in which the computed function of key threw
ThrewIn(key) == state' # state /\ computedManager'.failed = key

\* C28: a computed function that throws while it is evaluated leaves the
\* dependency set {*} for its key and the previous cache entry as its value
C28_ThrowFallsBackToAll ==
    [][\A key \in Range(FailingComputedKeys) :
          ThrewIn(key) =>
              /\ computedManager'.computedDependencies[key] = {<<"*">>}
              /\ computedManager'.computedCache[key] = computedManager.computedCache[key]]_vars

\* ---- C30 ----
SilentOptions == [DefaultUpdateOptions EXCEPT !.silent = TRUE]

\* C30: a setState with silent = true that changes the state leaves the new
\* values in the state and in the computed value made of them, and schedules
\* and raises no notification
C30_SilentSetState ==
    [][\A u \in Updates :
          (SetState(u, SilentOptions) /\ ~AlreadyApplied(u)) =>
             /\ state' # state
             /\ \A k \in DOMAIN u \cap DOMAIN state : state'[k] = u[k]
             /\ computedManager'.computedCache["C"] = Double(state'["x"])
             /\ pendingUpdates' = pendingUpdates
             /\ rafId' = rafId
             /\ notification' = <<>>
             /\ subscriberObjs' = subscriberObjs]_vars

\* in a browser a setState has changed x and the computed values, and no
\* update is queued and no flush pending
C30_ChangedUnnotified ==
    /\ ~isServer
    /\ evaluated = <<"C", "D">>
    /\ state["x"] = Num(MaxNum)
    /\ computedManager.computedCache["C"] = Num(2 * MaxNum)
    /\ pendingUpdates = NoPending
    /\ rafId = "null"

\* ---- C29 ----
\* the step is a safeExecute call in the context id whose function threw
FailedCall(id) ==
    /\ boundaryEvent'.op = "call"
    /\ boundaryEvent'.id = id
    /\ boundaryEvent'.threw

\* C29: in each (action, path) context at most maxRecoveryAttempts (3) retries
\* are scheduled without one of them succeeding; a failing call below the cap
\* schedules one delayed retry, a failing call at the cap schedules none and
\* returns the fallback
C29_BoundedRetry ==
    /\ [](\A id \in ContextIds : unrecovered[id] <= 3)
    /\ [][\A id \in ContextIds :
             FailedCall(id) =>
                IF unrecovered[id] < 3
                THEN /\ boundaryEvent'.returned = "promise"
                     /\ retryTimers'[id] = retryTimers[id] + 1
                     /\ unrecovered'[id] = unrecovered[id] + 1
                ELSE /\ boundaryEvent'.returned = "fallback"
                     /\ retryTimers' = retryTimers
                     /\ unrecovered' = unrecovered]_vars

\* three retries of a context were scheduled, none succeeded, and the next
\* failing call of the context returned the fallback
C29_GaveUp ==
    \E id \in ContextIds :
       /\ unrecovered[id] = 3
       /\ boundaryEvent = [op |-> "call", id |-> id, threw |-> TRUE, returned |-> "fallback"]

\* ---- C38 ----
\* C38: in the status of every operation pending and loaded are never both
\* true, and error is non-null only when pending and loaded are both false
C38_StatusWellFormed ==
    \A key \in AsyncKeys :
       /\ ~(asyncStateMap[key].pending /\ asyncStateMap[key].loaded)
       /\ asyncStateMap[key].error # NoError =>
             (~asyncStateMap[key].pending /\ ~asyncStateMap[key].loaded)

\* an operation that had succeeded was called again and failed: its status
\* holds the error and is no longer loaded
C38_ErrorAfterLoaded ==
    \E id \in Requests :
       /\ calls[id].phase = "settled"
       /\ calls[id].result.success
       /\ asyncStateMap[calls[id].key].error # NoError
       /\ lastInvoked[calls[id].key] # id

\* ---- C39 ----
\* the calls made of an operation
CallsOf(key) == {id \in 1..nextRequest : calls[id].key = key}

AllSettled(key) ==
    /\ CallsOf(key) # {}
    /\ \A id \in CallsOf(key) : calls[id].phase = "settled"

WatchdogFired(id) == calls[id].timedOut

\* C35: for every operation, once its most recently invoked call has settled or
\* the watchdog of that call has fired, the status is not pending
C35_NotPendingForever ==
    \A key \in AsyncKeys :
       (/\ lastInvoked[key] # NoReq
        /\ \/ calls[lastInvoked[key]].phase = "settled"
           \/ WatchdogFired(lastInvoked[key]))
          => ~asyncStateMap[key].pending

\* ---- C32 ----
\* the entry was last set or fetched longer ago than the TTL
Stale(k) == lruCache.ttl # NoTtl /\ now - lruCache.timestamps[k] > lruCache.ttl

\* C32: with a TTL, a get or has on an entry older than the TTL reports it
\* absent and removes it, a get or has on a younger entry finds it;
\* purgeExpired() removes the entries older than the TTL and no other entry
C32_ExpiryOnAccess ==
    [][/\ \A k \in lruCache.keys :
             (lruEvent'.op \in {"get", "has"} /\ lruEvent'.key = k) =>
                IF Stale(k)
                THEN /\ lruEvent'.result = (IF lruEvent'.op = "get" THEN Nil ELSE FALSE)
                     /\ lruCache'.keys = lruCache.keys \ {k}
                ELSE /\ lruEvent'.result = (IF lruEvent'.op = "get" THEN lruCache.value[k]
                                            ELSE TRUE)
                     /\ lruCache'.keys = lruCache.keys
       /\ lruEvent'.op = "purgeExpired" =>
             /\ lruCache'.keys = {k \in lruCache.keys : ~Stale(k)}
             /\ lruEvent'.result = Cardinality({k \in lruCache.keys : Stale(k)})]_vars

\* purgeExpired() has removed one entry and left a younger one
C32_PurgedOnlyStale ==
    /\ lruEvent.op = "purgeExpired"
    /\ lruEvent.result = 1
    /\ lruEvent.evicted # {}
    /\ lruCache.keys # {}

\* ---- C40 ----
\* the keys met from node k on along the next links, at most n of them
RECURSIVE WalkNext(_, _, _)
WalkNext(c, k, n) ==
    IF k = Nil \/ n = 0 THEN <<>> ELSE <<k>> \o WalkNext(c, c.next[k], n - 1)

RECURSIVE WalkPrev(_, _, _)
WalkPrev(c, k, n) ==
    IF k = Nil \/ n = 0 THEN <<>> ELSE <<k>> \o WalkPrev(c, c.prev[k], n - 1)

Reversed(seq) == [i \in 1..Len(seq) |-> seq[Len(seq) + 1 - i]]

\* C40: the cache never holds more than capacity entries, and the list walked
\* from head to tail holds exactly the keys of the map, each once (and the
\* same keys in reverse from tail to head)
C40_ListMatchesMap ==
    /\ Cardinality(lruCache.keys) <= lruCache.capacity
    /\ \E walk \in {WalkNext(lruCache, lruCache.head, NKeys + 1)} :
          /\ Len(walk) = Cardinality(lruCache.keys)
          /\ Range(walk) = lruCache.keys
          /\ (walk # <<>>) => walk[Len(walk)] = lruCache.tail
          /\ (walk = <<>>) => lruCache.tail = Nil
          /\ WalkPrev(lruCache, lruCache.tail, NKeys + 1) = Reversed(walk)

\* a cache of two entries from which delete has just taken the head
C40_HeadDeleted ==
    /\ lruEvent.op = "delete"
    /\ lruEvent.result = TRUE
    /\ Cardinality(lruCache.keys) = 1
    /\ lruCache.head = lruCache.tail
    /\ lruCache.head # Nil
    /\ lruUsed # <<>>

\* ---- C34 ----
\* the subscribers whose disposer has run
Disposed == {id \in 1..nextSubscriberId : id \notin subscriptionTree.subscriberRegistry}

\* C34: a notification made after a subscriber's disposer has run does not
\* invoke that subscriber's callback, whatever paths it was registered with
C34_DisposedNeverNotified ==
    [][notification' # <<>> =>
          \A id \in Disposed : id \notin Range(notification'[1].ran)]_vars

\* ---- C33 ----
\* the changed paths the queued updates will hand to notifySubscribers
QueuedPaths(pending) ==
    UNION {UNION {Range(pending[q][i].paths) : i \in 1..Len(pending[q])} :
              q \in Range(QueueNames)}

\* C33: a setState made in a browser before the scheduler has flushed leaves
\* every changed path of the earlier calls queued, so that the flush notifies
\* the subscribers of the earlier and of the later change
C33_EarlierPathsKept ==
    [][(state' # state /\ ~isServer) =>
          QueuedPaths(pendingUpdates) \subseteq QueuedPaths(pendingUpdates')]_vars

\* ---- C37 ----
\* C37: a setState that is not silent and changes the state raises the
\* notification of the change, also when a computed function throws in it
C37_ThrowStillAnnounced ==
    [][\A u \in Updates :
          (SetState(u, DefaultUpdateOptions) /\ state' # state) => RaisesNotification]_vars

\* C36: after every setState has returned, the cached value of each computed key that
\* is in no cycle is the key's function applied to the current state
C36_ComputedFresh ==
    \A key \in Range(computedManager.computed) :
        computedManager.computedCache[key]
            = RunComputed(key, state, FALSE, computedManager.computedCache).value

\* C31: executeParallel resolves, once every call has completed, with exactly one
\* entry per requested call, in the order of the list, holding what that call
\* resolved with; a call that settles, with success or with failure, aborts no
\* other call, disarms no other call's watchdog and changes no other call's result
ReturnedOnePerCall ==
    parallel.phase = "returned" =>
        /\ Len(parallel.results) = Len(parallel.actions)
        /\ \A i \in 1..Len(parallel.actions) :
              /\ parallel.results[i].key = parallel.actions[i]
              /\ parallel.results[i].result.settled
              /\ parallel.results[i].result = calls[parallel.ids[i]].result

SiblingsUntouched ==
    \A id \in Requests :
        Settles(id) =>
            \A j \in Requests \ {id} :
                /\ calls'[j] = calls[j]
                /\ (j \in abortControllers') = (j \in abortControllers)
                /\ (j \in timers') = (j \in timers)

C31_OneEntryPerCall == [](ReturnedOnePerCall) /\ [][SiblingsUntouched]_vars

\* executeParallel returned with two calls running at once allowed, one call
\* failed and another call succeeded
C31_FailureBesideSuccess ==
    /\ parallel.phase = "returned"
    /\ parallel.limit > 1
    /\ \E i, j \in 1..Len(parallel.results) :
          /\ parallel.results[i].result = Failure(OpError)
          /\ parallel.results[j].result.success
          /\ i < j

====

